---- MODULE Spec2Model ----
(***************************************************************************)
(* Resume screener: the fit scorer (src/src/models/matcher.py).            *)
(*                                                                         *)
(* A ResumeJobMatcher is constructed once (use_transformers is fixed by    *)
(* the constructor) and its calculate_* methods are then called one after  *)
(* the other.  The skill extractor, the text cleaner and the API's         *)
(* matching endpoints follow, each with a specification of its own over    *)
(* the same variables.  Every score is a float the code rounds to 2 decimals; the   *)
(* model keeps a score as the integer number of hundredths of a point      *)
(* (50.0 is 5000, 33.33 is 3333), and a weight as the integer number of    *)
(* hundredths (0.40 is 40), so a weighted sum of scores is an integer      *)
(* number of 1/10000 points.  Arithmetic is exact decimal arithmetic.      *)
(***************************************************************************)
EXTENDS Integers, Sequences, FiniteSets, TLC

VARIABLES
    use_transformers,   \* ResumeJobMatcher.use_transformers
    all_skills,         \* SkillExtractor.all_skills, in its iteration order
    pc,                 \* "idle" before a call, "returned" after it
    call,               \* the operation called and its arguments
    result,             \* what it returned
    raised,             \* the external capabilities that raised during the call
    upload_dir,         \* the filenames under which UPLOAD_DIR holds a file
    resumes             \* the filenames of the rows of the table resumes

vars == <<use_transformers, all_skills, pc, call, result, raised, upload_dir, resumes>>

(***************************************************************************)
(* Bounds of the model.                                                    *)
(***************************************************************************)
\* longest skill list handed to calculate_skill_match
MaxSkills == 3
\* longest required-skill list of a job profile handed to
\* calculate_overall_fit_score
MaxFitSkills == 2
\* largest number of years handed to calculate_experience_match
MaxYears == 6
\* files named in one batch request
MaxBatch == 3
\* words of a text given to the extractor
MaxWords == 2
\* lines of a text given to the text cleaner
MaxLines == 2
\* lines of a text given to extract_name
MaxNameLines == 6
\* words and line breaks of a text given to extract_sections
MaxTokens == 5

(***************************************************************************)
(* Skill strings and str.lower().                                          *)
(***************************************************************************)
SkillNames == {"Python", "python", "AWS", "Docker"}

\* s.lower() on the skill strings of the model
Lower(s) ==
    CASE s = "Python" -> "python"
      [] s = "python" -> "python"
      [] s = "AWS"    -> "aws"
      [] s = "Docker" -> "docker"
      [] s = "SQL"    -> "sql"
      [] s = "SQS"    -> "sqs"
      [] s = "SQLs"   -> "sqls"
      [] s = "DynamoDB" -> "dynamodb"
      [] s = "sklearn" -> "sklearn"
      [] s = "sklearns" -> "sklearns"
      [] s = "scikit-learn" -> "scikit-learn"
      [] s = "and" -> "and"
      [] s = "PhD" -> "phd"
      [] s = "Masters" -> "masters"
      [] s = "MSc" -> "msc"
      [] s = "systems" -> "systems"
      [] s = "Bachelor" -> "bachelor"
      [] s = "Matric" -> "matric"
      [] s = "Senior" -> "senior"
      [] s = "PMP" -> "pmp"

SeqsUpTo(S, n) == UNION {[1..k -> S] : k \in 0..n}

Range(seq) == {seq[i] : i \in 1..Len(seq)}

(***************************************************************************)
(* round(x, 2) of the float x = n / d points, as hundredths of a point.    *)
(* Python rounds the stored double correctly; where x is exactly           *)
(* representable a tie goes to the even neighbour.                         *)
(***************************************************************************)
RoundHalfEven(n, d) ==
    LET q == n \div d
        r == n % d
    IN  IF 2 * r < d THEN q
        ELSE IF 2 * r > d THEN q + 1
        ELSE IF q % 2 = 0 THEN q ELSE q + 1

\* round(x, 2) of a weighted sum x = n / d: a decimal tie (x.xx5) is not
\* representable as a double, the stored value lies just below or just above
\* it, and round() follows the stored value: either neighbour can come out.
RoundFloat(n, d) ==
    IF 2 * (n % d) = d THEN {n \div d, (n \div d) + 1}
    ELSE {RoundHalfEven(n, d)}

\* p points as hundredths of a point (the unit of a score rounded to 2 decimals)
Hundredths(p) == p * 100

\* p points in the unit of a weighted sum: hundredths of a point times
\* hundredths of a weight
Units(p) == p * 10000

(***************************************************************************)
(* calculate_skill_match (matcher.py:40-88)                                *)
(***************************************************************************)
\* the early return for "not job_skills": no total_required / total_matched
EmptyJobResultFull ==
    [match_percentage |-> Hundredths(100), matched_skills |-> <<>>,
     missing_skills |-> <<>>, extra_skills |-> <<>>]

EmptyJobResult ==
    [match_percentage |-> 0, matched_skills |-> <<>>,
     missing_skills |-> <<>>, extra_skills |-> <<>>]

\* a skill set built without lowering its members
RawSet(skills) == Range(skills)

\* set([s.lower() for s in skills])
LowerSet(skills) == {Lower(skills[i]) : i \in 1..Len(skills)}

calculate_skill_match(resume_skills, job_skills) ==
    IF job_skills = <<>> THEN EmptyJobResult
    ELSE
    LET resume_skills_set == LowerSet(resume_skills)
        job_skills_set    == LowerSet(job_skills)
        matched == resume_skills_set \cap job_skills_set
        missing == job_skills_set \ resume_skills_set
        extra   == resume_skills_set \ job_skills_set
        match_percentage ==
            IF job_skills_set # {}
            THEN RoundHalfEven(Cardinality(matched) * Hundredths(100),
                               Cardinality(job_skills_set))
            ELSE 0
    IN  [match_percentage |-> match_percentage,
         matched_skills |-> SelectSeq(job_skills, LAMBDA s : Lower(s) \in matched),
         missing_skills |-> SelectSeq(job_skills, LAMBDA s : Lower(s) \in missing),
         extra_skills   |-> SelectSeq(resume_skills, LAMBDA s : Lower(s) \in extra),
         total_required |-> Len(job_skills),
         total_matched  |-> Cardinality(matched)]

(***************************************************************************)
(* calculate_experience_match (matcher.py:151-187)                         *)
(***************************************************************************)
\* the comparison written > instead of >=
calculate_experience_match_strict(resume_years, job_required_years) ==
    IF job_required_years = 0
    THEN [score |-> Hundredths(100), meets_requirement |-> TRUE, difference |-> 0]
    ELSE IF resume_years > job_required_years
    THEN [score |-> Hundredths(100), meets_requirement |-> TRUE,
          difference |-> resume_years - job_required_years]
    ELSE [score |-> RoundHalfEven(resume_years * Hundredths(100), job_required_years),
          meets_requirement |-> FALSE,
          difference |-> resume_years - job_required_years]

calculate_experience_match(resume_years, job_required_years) ==
    IF job_required_years = 0
    THEN [score |-> Hundredths(100), meets_requirement |-> TRUE, difference |-> 0]
    ELSE IF resume_years >= job_required_years
    THEN [score |-> Hundredths(100), meets_requirement |-> TRUE,
          difference |-> resume_years - job_required_years]
    ELSE [score |-> RoundHalfEven(resume_years * Hundredths(100), job_required_years),
          meets_requirement |-> FALSE,
          difference |-> resume_years - job_required_years]

(***************************************************************************)
(* calculate_education_match (matcher.py:189-235)                          *)
(***************************************************************************)
RankedLevels ==
    {"high_school", "diploma", "associate", "bachelors", "masters", "phd"}

\* education_hierarchy.get(level, 0); "None" stands for Python's None (no
\* degree found), "unknown" for the default of a profile without the key
education_hierarchy(level) ==
    CASE level = "high_school" -> 1
      [] level = "diploma"     -> 2
      [] level = "associate"   -> 3
      [] level = "bachelors"   -> 4
      [] level = "masters"     -> 5
      [] level = "phd"         -> 6
      [] OTHER                 -> 0

EducationValues == RankedLevels \cup {"unknown", "None"}

\* partial credit computed out of 100 instead of 70
calculate_education_match_uncapped(resume_education, job_education) ==
    LET resume_level == education_hierarchy(resume_education)
        job_level    == education_hierarchy(job_education)
    IN  IF job_level = 0
        THEN [score |-> Hundredths(100), meets_requirement |-> TRUE]
        ELSE IF resume_level >= job_level
        THEN [score |-> Hundredths(100), meets_requirement |-> TRUE]
        ELSE [score |-> RoundHalfEven(resume_level * Hundredths(100), job_level),
              meets_requirement |-> FALSE]

calculate_education_match(resume_education, job_education) ==
    LET resume_level == education_hierarchy(resume_education)
        job_level    == education_hierarchy(job_education)
    IN  IF job_level = 0
        THEN [score |-> Hundredths(100), meets_requirement |-> TRUE]
        ELSE IF resume_level >= job_level
        THEN [score |-> Hundredths(100), meets_requirement |-> TRUE]
        ELSE [score |-> RoundHalfEven(resume_level * Hundredths(70), job_level),
              meets_requirement |-> FALSE]

(***************************************************************************)
(* calculate_overall_fit_score (matcher.py:237-321)                        *)
(***************************************************************************)
\* default weights with the skills weight mistyped (they no longer sum to 1)
default_weights_skewed ==
    [skills |-> 50, experience |-> 20, education |-> 15,
     text_similarity |-> 15, semantic_similarity |-> 10]

\* the default weights (matcher.py:258-264), in hundredths
default_weights ==
    [skills |-> 40, experience |-> 20, education |-> 15,
     text_similarity |-> 15, semantic_similarity |-> 10]

\* "if weights is None": the weights argument is <<>> for None and <<w>> for
\* a dict w the caller passes
weights_used(weights) == IF weights = <<>> THEN default_weights ELSE weights[1]

\* the semantic signal computed whatever use_transformers says
semantic_similarity_always(enabled, encoded) == encoded

\* semantic_sim = 0; if self.use_transformers: semantic_sim =
\* self.calculate_semantic_similarity(...)   (matcher.py:289-291, 138-149);
\* encoded is what the encoder and the cosine yield for the two texts
semantic_similarity(enabled, encoded) == IF enabled THEN encoded ELSE 0

\* the weighted sum without its semantic term
weighted_sum_no_semantic(w, skill, experience, education, text_sim, semantic_sim) ==
    skill * w.skills + experience * w.experience + education * w.education
    + text_sim * w.text_similarity

\* overall_score before rounding (matcher.py:294-300), in 1/10000 points
weighted_sum(w, skill, experience, education, text_sim, semantic_sim) ==
    skill * w.skills + experience * w.experience + education * w.education
    + text_sim * w.text_similarity + semantic_sim * w.semantic_similarity

\* the fit level decided on the unrounded overall_score (matcher.py:303-310)
fit_level(overall) ==
    IF overall >= Units(80) THEN "Excellent"
    ELSE IF overall >= Units(60) THEN "Good"
    ELSE IF overall >= Units(40) THEN "Fair"
    ELSE "Poor"

\* a requirement read from the job: job_data.get('required_years', 0)
job_years_of_job(job_data) == job_data.required_years

\* job_years = 0  # Extract from job description if needed (matcher.py:275)
job_years(job_data) == 0

\* The results calculate_overall_fit_score can return: one, or two where
\* round(overall_score, 2) meets a tie.  text_sim is what
\* calculate_text_similarity returns for the two raw texts, encoded what the
\* embedding model and the cosine yield for them.
calculate_overall_fit_score(enabled, resume_data, job_data, weights, text_sim, encoded) ==
    LET w == weights_used(weights)
        skill_match == calculate_skill_match(resume_data.skills, job_data.skills)
        resume_years == resume_data.years_experience
        experience_match == calculate_experience_match(resume_years, job_years(job_data))
        education_match ==
            calculate_education_match(resume_data.highest_level, job_data.highest_level)
        semantic_sim == semantic_similarity(enabled, encoded)
        overall == weighted_sum(w, skill_match.match_percentage, experience_match.score,
                                education_match.score, text_sim, semantic_sim)
    IN  {[overall_score |-> rounded,
          fit_level |-> fit_level(overall),
          skill_match |-> skill_match,
          experience_match |-> experience_match,
          education_match |-> education_match,
          text_similarity |-> text_sim,
          semantic_similarity |-> semantic_sim,
          weights_used |-> w] : rounded \in RoundFloat(overall, 100)}

(***************************************************************************)
(* The inputs of the model.                                                *)
(***************************************************************************)
\* skill lists handed to calculate_skill_match directly
SkillLists == SeqsUpTo(SkillNames, MaxSkills)

\* the 'skills' list of an extracted profile is sorted(list(found_skills))
\* (skill_extractor.py:145): canonical names, no repeats, sorted
ResumeProfileSkills == {<<>>, <<"AWS">>, <<"Python">>, <<"AWS", "Python">>}

\* the job's list is the extracted one or, when the request gives
\* required_skills, that list as the caller wrote it (api/main.py:299-300)
JobProfileSkills == SeqsUpTo({"Python", "python", "AWS"}, MaxFitSkills)

ResumeProfiles ==
    [skills : ResumeProfileSkills,
     years_experience : {0, MaxYears},
     highest_level : {"None", "high_school", "bachelors", "phd"}]

\* required_years is what a caller's job dict states as the requirement
JobProfiles ==
    [skills : JobProfileSkills,
     highest_level : {"None", "bachelors", "masters"},
     required_years : {0, MaxYears}]

\* weights a caller can pass: a usual split, all on the semantic signal,
\* a negative weight (these three sum to 1.0), and weights that sum to 5.0
CallerWeights ==
    {[skills |-> 50, experience |-> 20, education |-> 10,
      text_similarity |-> 10, semantic_similarity |-> 10],
     [skills |-> 0, experience |-> 0, education |-> 0,
      text_similarity |-> 0, semantic_similarity |-> 100],
     [skills |-> 150, experience |-> -50, education |-> 0,
      text_similarity |-> 0, semantic_similarity |-> 0],
     [skills |-> 100, experience |-> 100, education |-> 100,
      text_similarity |-> 100, semantic_similarity |-> 100]}

WeightArgs == {<<>>} \cup {<<w>> : w \in CallerWeights}

\* calculate_text_similarity: round(cosine * 100, 2) of two tf-idf vectors
\* (non-negative entries, so within 0..100), 0.0 when the vectoriser raises
TextSimValues == {0, 3331, Hundredths(100)}

\* round(cosine * 100, 2) of two embedding vectors (a cosine lies in -1..1),
\* 0.0 when the encoder raises
EncodedValues == {-1250, 0, 9997, Hundredths(100)}

(***************************************************************************)
(* calculate_text_similarity, calculate_semantic_similarity                *)
(* (matcher.py:90-149).  The vectoriser and the encoder are external: for  *)
(* the two texts each either raises or yields a rounded cosine.            *)
(***************************************************************************)
VectoriserOutcomes ==
    {[raises |-> TRUE]} \cup {[raises |-> FALSE, value |-> v] : v \in TextSimValues}

EncoderOutcomes ==
    {[raises |-> TRUE]} \cup {[raises |-> FALSE, value |-> v] : v \in EncodedValues}

\* an except clause that reports a full match instead of none
calculate_text_similarity_failopen(outcome) ==
    IF outcome.raises THEN Hundredths(100) ELSE outcome.value

\* try: ... return round(similarity * 100, 2)  except: return 0.0
calculate_text_similarity(outcome) ==
    IF outcome.raises THEN 0 ELSE outcome.value

\* if not self.transformer: return 0.0; try: ... except: return 0.0
calculate_semantic_similarity(transformer, outcome) ==
    IF ~transformer THEN 0
    ELSE IF outcome.raises THEN 0 ELSE outcome.value

\* the capabilities that raised during a call of calculate_overall_fit_score:
\* the encoder is only run when use_transformers
RaisedDuring(enabled, vectoriser, encoder) ==
    (IF vectoriser.raises THEN {"vectoriser"} ELSE {})
    \cup (IF enabled /\ encoder.raises THEN {"encoder"} ELSE {})

(***************************************************************************)
(* The skill taxonomy (skill_database.py), cut down to the skills the      *)
(* model's texts can mention; names, categories and order are the source's.*)
(***************************************************************************)
\* TECHNICAL_SKILLS, in the order of the dict: DynamoDB is listed twice
TECHNICAL_SKILLS ==
    <<[category |-> "programming_languages", skills |-> <<"SQL">>],
      [category |-> "ml_ai", skills |-> <<"scikit-learn", "sklearn">>],
      [category |-> "databases", skills |-> <<"DynamoDB">>],
      [category |-> "aws_services", skills |-> <<"DynamoDB", "SQS">>]>>

\* ALL_TECHNICAL_SKILLS + SOFT_SKILLS, as listed (repeats included)
ALL_TECHNICAL_SKILLS ==
    TECHNICAL_SKILLS[1].skills \o TECHNICAL_SKILLS[2].skills
        \o TECHNICAL_SKILLS[3].skills \o TECHNICAL_SKILLS[4].skills

\* set(ALL_TECHNICAL_SKILLS + SOFT_SKILLS)
TaxonomySkills == Range(ALL_TECHNICAL_SKILLS)

\* one iteration order of that set
SkillsAsListed == <<"SQL", "scikit-learn", "sklearn", "DynamoDB", "SQS">>

(***************************************************************************)
(* The state machine: a matcher is constructed, then its methods are       *)
(* called one at a time; call holds the call and result what it returned.  *)
(***************************************************************************)
NoCall == [op |-> "none"]

\* ResumeJobMatcher.__init__; the matcher's own methods never read the
\* skills of its skill extractor, whose order is left as listed here
Init ==
    /\ use_transformers \in BOOLEAN
    /\ all_skills = SkillsAsListed
    /\ pc = "idle"
    /\ call = NoCall
    /\ result = NoCall
    /\ raised = {}
    /\ upload_dir = {}
    /\ resumes = <<>>

CallSkillMatch ==
    /\ pc = "idle"
    /\ \E resume_skills \in SkillLists, job_skills \in SkillLists :
          /\ call' = [op |-> "calculate_skill_match",
                      resume_skills |-> resume_skills, job_skills |-> job_skills]
          /\ result' = calculate_skill_match(resume_skills, job_skills)
    /\ raised' = {}
    /\ pc' = "returned"
    /\ UNCHANGED <<use_transformers, all_skills, upload_dir, resumes>>

CallExperienceMatch ==
    /\ pc = "idle"
    /\ \E resume_years \in 0..MaxYears, job_required_years \in 0..MaxYears :
          /\ call' = [op |-> "calculate_experience_match",
                      resume_years |-> resume_years,
                      job_required_years |-> job_required_years]
          /\ result' = calculate_experience_match(resume_years, job_required_years)
    /\ raised' = {}
    /\ pc' = "returned"
    /\ UNCHANGED <<use_transformers, all_skills, upload_dir, resumes>>

CallEducationMatch ==
    /\ pc = "idle"
    /\ \E resume_education \in EducationValues, job_education \in EducationValues :
          /\ call' = [op |-> "calculate_education_match",
                      resume_education |-> resume_education,
                      job_education |-> job_education]
          /\ result' = calculate_education_match(resume_education, job_education)
    /\ raised' = {}
    /\ pc' = "returned"
    /\ UNCHANGED <<use_transformers, all_skills, upload_dir, resumes>>

\* calculate_semantic_similarity is called at matcher.py:291 only under
\* use_transformers, when the transformer is loaded: the last argument is
\* what that call returns
CallOverallFitScore ==
    /\ pc = "idle"
    /\ \E resume_data \in ResumeProfiles, job_data \in JobProfiles,
          weights \in WeightArgs, vectoriser \in VectoriserOutcomes,
          encoder \in EncoderOutcomes :
          /\ call' = [op |-> "calculate_overall_fit_score",
                      resume_data |-> resume_data, job_data |-> job_data,
                      weights |-> weights]
          /\ result' \in calculate_overall_fit_score(
                            use_transformers, resume_data, job_data, weights,
                            calculate_text_similarity(vectoriser),
                            calculate_semantic_similarity(TRUE, encoder))
          /\ raised' = RaisedDuring(use_transformers, vectoriser, encoder)
    /\ pc' = "returned"
    /\ UNCHANGED <<use_transformers, all_skills, upload_dir, resumes>>

CallTextSimilarity ==
    /\ pc = "idle"
    /\ \E vectoriser \in VectoriserOutcomes :
          /\ call' = [op |-> "calculate_text_similarity"]
          /\ result' = [returns |-> calculate_text_similarity(vectoriser)]
          /\ raised' = RaisedDuring(FALSE, vectoriser, vectoriser)
    /\ pc' = "returned"
    /\ UNCHANGED <<use_transformers, all_skills, upload_dir, resumes>>

CallSemanticSimilarity ==
    /\ pc = "idle"
    /\ \E encoder \in EncoderOutcomes :
          /\ call' = [op |-> "calculate_semantic_similarity"]
          /\ result' = [returns |-> calculate_semantic_similarity(use_transformers, encoder)]
          /\ raised' = RaisedDuring(use_transformers, [raises |-> FALSE], encoder)
    /\ pc' = "returned"
    /\ UNCHANGED <<use_transformers, all_skills, upload_dir, resumes>>

\* the caller takes the result; the matcher keeps nothing of the call
Return ==
    /\ pc = "returned"
    /\ pc' = "idle"
    /\ call' = NoCall
    /\ result' = NoCall
    /\ raised' = {}
    /\ UNCHANGED <<use_transformers, all_skills, upload_dir, resumes>>

Next ==
    \/ CallSkillMatch
    \/ CallExperienceMatch
    \/ CallEducationMatch
    \/ CallOverallFitScore
    \/ CallTextSimilarity
    \/ CallSemanticSimilarity
    \/ Return

Spec == Init /\ [][Next]_vars

(***************************************************************************)
(* The API (api/main.py, api/main_with_db.py).  Its matcher is built with  *)
(* use_transformers=True and is always called with the default weights.    *)
(* A resume reaches an endpoint as an uploaded file or a database row; the *)
(* parsing and extraction of its text are outside these endpoints, so a    *)
(* readable resume is given by its profile and by what the vectoriser and  *)
(* the encoder do with its text; candidate_name is left out.               *)
(***************************************************************************)
ApiResumeProfiles ==
    {[skills |-> <<>>, years_experience |-> 0, highest_level |-> "None"],
     [skills |-> <<"Python", "AWS">>, years_experience |-> MaxYears,
      highest_level |-> "bachelors"]}

\* job_profile after the required_skills override
ApiJobProfiles ==
    {[skills |-> <<>>, highest_level |-> "None"],
     [skills |-> <<"Python", "AWS">>, highest_level |-> "bachelors"],
     [skills |-> <<"Python", "AWS", "Docker", "SQL">>, highest_level |-> "masters"]}

ApiSimilarities ==
    {[vectoriser |-> [raises |-> TRUE], encoder |-> [raises |-> TRUE]],
     [vectoriser |-> [raises |-> FALSE, value |-> Hundredths(100)],
      encoder |-> [raises |-> FALSE, value |-> Hundredths(100)]]}

Resumes ==
    {[kind |-> "resume", profile |-> p, similarity |-> x] :
        p \in ApiResumeProfiles, x \in ApiSimilarities}

Filenames == {"a.pdf", "b.pdf", "c.pdf"}

\* what UPLOAD_DIR holds under a name: nothing, a file document_parser
\* cannot parse, or a resume
FileStates == {[kind |-> "absent"], [kind |-> "unreadable"]} \cup Resumes

\* crud.get_resume / crud.get_job: None or the row
StoredResumes == {[kind |-> "absent"]} \cup Resumes

StoredJobs == {[kind |-> "absent"]} \cup {[kind |-> "job", profile |-> j] : j \in ApiJobProfiles}

\* the match results generate_recommendations is applied to directly
MissingSkillLists ==
    {<<>>, <<"AWS">>, <<"Python", "AWS", "Docker">>, <<"Python", "AWS", "Docker", "SQL">>}

RecommendationInputs ==
    [skill_match : [missing_skills : MissingSkillLists],
     experience_match : [meets_requirement : BOOLEAN],
     education_match : [meets_requirement : BOOLEAN],
     overall_score : {3999, 4000, 5999, 6000, 7999, 8000}]

\* generate_recommendations (main.py:105-137); a recommendation is its text
\* and what is formatted into it
generate_recommendations(match_result) ==
    LET missing_skills == match_result.skill_match.missing_skills
        skill_gap ==
            IF missing_skills = <<>> THEN <<>>
            ELSE IF Len(missing_skills) <= 3
                 THEN <<[text |-> "Consider acquiring", skills |-> missing_skills]>>
                 ELSE <<[text |-> "Focus on developing missing skills",
                         count |-> Len(missing_skills)]>>
        experience ==
            IF ~match_result.experience_match.meets_requirement
            THEN <<[text |-> "Gain more relevant work experience"]>> ELSE <<>>
        education ==
            IF ~match_result.education_match.meets_requirement
            THEN <<[text |-> "Consider pursuing additional education/certifications"]>>
            ELSE <<>>
        overall ==
            IF match_result.overall_score >= Hundredths(80)
            THEN [text |-> "Excellent fit - Highly recommended for interview"]
            ELSE IF match_result.overall_score >= Hundredths(60)
            THEN [text |-> "Good fit - Recommend for initial screening"]
            ELSE IF match_result.overall_score >= Hundredths(40)
            THEN [text |-> "Moderate fit - May be suitable for entry-level roles"]
            ELSE [text |-> "Consider other opportunities better aligned with skills"]
    IN  skill_gap \o experience \o education \o <<overall>>

\* the recommendations match_resume_to_job builds itself (main_with_db.py:372-381)
match_resume_to_job_recommendations(match_result) ==
    LET missing_skills == match_result.skill_match.missing_skills
        overall ==
            IF match_result.overall_score >= Hundredths(80)
            THEN <<[text |-> "Excellent fit - Highly recommended for interview"]>>
            ELSE IF match_result.overall_score >= Hundredths(60)
            THEN <<[text |-> "Good fit - Recommend for initial screening"]>>
            ELSE <<>>
        skill_gap ==
            IF missing_skills # <<>> /\ Len(missing_skills) <= 3
            THEN <<[text |-> "Consider acquiring", skills |-> missing_skills]>>
            ELSE <<>>
    IN  overall \o skill_gap

\* SkillMatchResponse(**skill_match): total_required and total_matched are required
SkillMatchResponseRaises(skill_match) ==
    ~({"match_percentage", "matched_skills", "missing_skills", "extra_skills",
       "total_required", "total_matched"} \subseteq DOMAIN skill_match)

MatchResultResponse(filename, match_result, recommendations) ==
    [filename |-> filename,
     overall_score |-> match_result.overall_score,
     fit_level |-> match_result.fit_level,
     skill_match |-> match_result.skill_match,
     experience_match |-> match_result.experience_match,
     education_match |-> match_result.education_match,
     text_similarity |-> match_result.text_similarity,
     semantic_similarity |-> match_result.semantic_similarity,
     recommendations |-> recommendations]

\* matcher.calculate_overall_fit_score(resume_profile, job_profile)
ApiFitScores(resume, job_profile) ==
    calculate_overall_fit_score(
        TRUE, resume.profile, job_profile, <<>>,
        calculate_text_similarity(resume.similarity.vectoriser),
        calculate_semantic_similarity(TRUE, resume.similarity.encoder))

\* the body of the try block of the two endpoints of main.py: what it
\* raises or builds for one existing file
ProcessResume(filename, file, job_profile) ==
    IF file.kind = "unreadable" THEN {[raises |-> TRUE]}
    ELSE {IF SkillMatchResponseRaises(match_result.skill_match)
          THEN [raises |-> TRUE]
          ELSE [raises |-> FALSE,
                response |-> MatchResultResponse(filename, match_result,
                                 generate_recommendations(match_result))] :
          match_result \in ApiFitScores(file, job_profile)}

\* match_single_resume (main.py:257-321)
match_single_resume(filename, uploaded, job_profile) ==
    IF uploaded[filename].kind = "absent" THEN {[status |-> 404]}
    ELSE {IF outcome.raises THEN [status |-> 500]
          ELSE [status |-> 200, body |-> outcome.response] :
          outcome \in ProcessResume(filename, uploaded[filename], job_profile)}

\* the loop of match_batch_resumes: a missing file and a file whose
\* processing raises are passed over
RECURSIVE BatchMatches(_, _, _)
BatchMatches(resume_files, uploaded, job_profile) ==
    IF resume_files = <<>> THEN {<<>>}
    ELSE LET n == Len(resume_files)
             filename == resume_files[n]
             before == BatchMatches(SubSeq(resume_files, 1, n - 1), uploaded, job_profile)
         IN  IF uploaded[filename].kind = "absent" THEN before
             ELSE UNION {{IF outcome.raises THEN matches
                          ELSE Append(matches, outcome.response) :
                          outcome \in ProcessResume(filename, uploaded[filename],
                                                    job_profile)} :
                         matches \in before}

\* a sort that puts an element before its equals
RECURSIVE SortByScoreUnstable(_)
SortByScoreUnstable(matches) ==
    IF matches = <<>> THEN <<>>
    ELSE LET n == Len(matches)
             sorted == SortByScoreUnstable(SubSeq(matches, 1, n - 1))
             k == Cardinality({i \in 1..Len(sorted) :
                                 sorted[i].overall_score > matches[n].overall_score})
         IN  SubSeq(sorted, 1, k) \o <<matches[n]>> \o SubSeq(sorted, k + 1, Len(sorted))

\* matches.sort(key=lambda x: x.overall_score, reverse=True): list.sort is
\* stable, also with reverse=True (main.py:407, matcher.py:395)
RECURSIVE SortByScore(_)
SortByScore(matches) ==
    IF matches = <<>> THEN <<>>
    ELSE LET n == Len(matches)
             sorted == SortByScore(SubSeq(matches, 1, n - 1))
             k == Cardinality({i \in 1..Len(sorted) :
                                 sorted[i].overall_score >= matches[n].overall_score})
         IN  SubSeq(sorted, 1, k) \o <<matches[n]>> \o SubSeq(sorted, k + 1, Len(sorted))

\* os.listdir(UPLOAD_DIR): the files present, in any order
Listings(uploaded) ==
    LET present == {f \in Filenames : uploaded[f].kind # "absent"}
    IN  {l \in [1..Cardinality(present) -> present] : Range(l) = present}

\* match_batch_resumes (main.py:324-415)
match_batch_resumes(resume_files, uploaded, job_profile) ==
    IF resume_files = <<>> THEN {[status |-> 404]}
    ELSE {[status |-> 200,
           total_candidates |-> Len(matches),
           matches |-> SortByScore(matches)] :
          matches \in BatchMatches(resume_files, uploaded, job_profile)}

\* match_resume_to_job (main_with_db.py:340-435); an exception that leaves
\* the endpoint is answered with status 500
match_resume_to_job(resume, job) ==
    IF resume.kind = "absent" \/ job.kind = "absent" THEN {[status |-> 404]}
    ELSE {IF SkillMatchResponseRaises(match_result.skill_match)
          THEN [status |-> 500]
          ELSE [status |-> 200,
                body |-> MatchResultResponse("stored", match_result,
                             match_resume_to_job_recommendations(match_result))] :
          match_result \in ApiFitScores(resume, job.profile)}

\* lifespan (main.py:44-70): matcher = ResumeJobMatcher(use_transformers=True)
InitApi ==
    /\ use_transformers = TRUE
    /\ all_skills = SkillsAsListed
    /\ pc = "idle"
    /\ call = NoCall
    /\ result = NoCall
    /\ raised = {}
    /\ upload_dir = {}
    /\ resumes = <<>>

CallGenerateRecommendations ==
    /\ pc = "idle"
    /\ \E match_result \in RecommendationInputs :
          /\ call' = [op |-> "generate_recommendations", match_result |-> match_result]
          /\ result' = [returns |-> generate_recommendations(match_result)]
    /\ pc' = "returned"
    /\ raised' = {}
    /\ UNCHANGED <<use_transformers, all_skills, upload_dir, resumes>>

CallMatchSingle ==
    /\ pc = "idle"
    /\ \E filename \in Filenames, uploaded \in [Filenames -> FileStates],
          job_profile \in ApiJobProfiles :
          /\ call' = [op |-> "match_single_resume", filename |-> filename,
                      uploaded |-> uploaded, job_profile |-> job_profile]
          /\ result' \in match_single_resume(filename, uploaded, job_profile)
    /\ pc' = "returned"
    /\ raised' = {}
    /\ UNCHANGED <<use_transformers, all_skills, upload_dir, resumes>>

\* resume_files is request.resume_filenames, or the listing of UPLOAD_DIR
\* when the request names no file
CallMatchBatch ==
    /\ pc = "idle"
    /\ \E resume_filenames \in SeqsUpTo(Filenames, MaxBatch),
          uploaded \in [Filenames -> FileStates],
          job_profile \in ApiJobProfiles :
          \E resume_files \in (IF resume_filenames # <<>> THEN {resume_filenames}
                               ELSE Listings(uploaded)) :
             /\ call' = [op |-> "match_batch_resumes", resume_files |-> resume_files,
                         uploaded |-> uploaded, job_profile |-> job_profile]
             /\ result' \in match_batch_resumes(resume_files, uploaded, job_profile)
    /\ pc' = "returned"
    /\ raised' = {}
    /\ UNCHANGED <<use_transformers, all_skills, upload_dir, resumes>>

CallMatchResumeToJob ==
    /\ pc = "idle"
    /\ \E resume \in StoredResumes, job \in StoredJobs :
          /\ call' = [op |-> "match_resume_to_job", resume |-> resume, job |-> job]
          /\ result' \in match_resume_to_job(resume, job)
    /\ pc' = "returned"
    /\ raised' = {}
    /\ UNCHANGED <<use_transformers, all_skills, upload_dir, resumes>>

NextApi ==
    \/ CallGenerateRecommendations
    \/ CallMatchSingle
    \/ CallMatchBatch
    \/ CallMatchResumeToJob
    \/ Return

SpecApi == InitApi /\ [][NextApi]_vars

(***************************************************************************)
(* The skill extractor (models/skill_extractor.py, skill_database.py).     *)
(* A text is its sequence of words.  all_skills is list(set(...)): its     *)
(* order is whatever the string hashing of the process makes it.           *)
(***************************************************************************)
Words ==
    {"sklearn", "scikit-learn", "DynamoDB", "SQL", "SQLs", "sklearns", "and",
     "PhD", "Masters", "MSc", "systems", "Bachelor", "Matric", "Senior", "PMP"}

SkillWords == {"sklearn", "scikit-learn", "DynamoDB", "SQL", "SQLs", "sklearns", "and"}

EducationWords == {"PhD", "Masters", "MSc", "systems", "Bachelor", "Matric", "and"}

ProfileWords == {"SQLs", "sklearn", "MSc", "Senior", "PMP"}

\* sections of extract_complete_profile: none, or a skills section
SectionArgs ==
    {<<>>} \cup {[name \in {"skills"} |-> section_text] :
                    section_text \in {<<>>, <<"sklearn">>}}

Least(S) == CHOOSE x \in S : \A y \in S : x <= y

Greatest(S) == CHOOSE x \in S : \A y \in S : x >= y

\* get_all_skills: every order of the set of skills
SkillOrders ==
    {order \in [1..Cardinality(TaxonomySkills) -> TaxonomySkills] :
        Range(order) = TaxonomySkills}

SKILL_SYNONYMS == <<[main_skill |-> "scikit-learn", synonyms |-> <<"sklearn">>]>>

\* normalize_skill (skill_database.py:195-207); nothing calls it
normalize_skill(skill) ==
    LET hits == {i \in 1..Len(SKILL_SYNONYMS) :
                    \E j \in 1..Len(SKILL_SYNONYMS[i].synonyms) :
                        Lower(SKILL_SYNONYMS[i].synonyms[j]) = Lower(skill)}
    IN  IF hits = {} THEN skill ELSE SKILL_SYNONYMS[Least(hits)].main_skill

\* get_skill_category: the first category that lists the skill
get_skill_category(skill) ==
    LET hits == {i \in 1..Len(TECHNICAL_SKILLS) :
                    \E j \in 1..Len(TECHNICAL_SKILLS[i].skills) :
                        Lower(TECHNICAL_SKILLS[i].skills[j]) = Lower(skill)}
    IN  IF hits = {} THEN "unknown" ELSE TECHNICAL_SKILLS[Least(hits)].category

\* the matches of \bskill\b in text.lower(): a word of the model's texts
\* holds a skill only as the whole word
ExactHits(text, skill) ==
    Cardinality({i \in 1..Len(text) : Lower(text[i]) = Lower(skill)})

\* self.nlp(text): the noun tokens longer than 2 characters; every word
\* but "and" is tagged a noun
Candidates(text) == {w \in Range(text) : w # "and"}

\* fuzz.ratio(candidate.lower(), skill.lower()), as computed by the library
FuzzRatioTable ==
    "sklearn" :> ("scikit-learn" :> 74 @@ "sklearn" :> 100 @@ "DynamoDB" :> 13 @@ "SQL" :> 40 @@ "SQS" :> 20) @@
    "scikit-learn" :> ("scikit-learn" :> 100 @@ "sklearn" :> 74 @@ "DynamoDB" :> 10 @@ "SQL" :> 27 @@ "SQS" :> 13) @@
    "DynamoDB" :> ("scikit-learn" :> 10 @@ "sklearn" :> 13 @@ "DynamoDB" :> 100 @@ "SQL" :> 0 @@ "SQS" :> 0) @@
    "SQL" :> ("scikit-learn" :> 27 @@ "sklearn" :> 40 @@ "DynamoDB" :> 0 @@ "SQL" :> 100 @@ "SQS" :> 67) @@
    "SQLs" :> ("scikit-learn" :> 25 @@ "sklearn" :> 36 @@ "DynamoDB" :> 0 @@ "SQL" :> 86 @@ "SQS" :> 86) @@
    "sklearns" :> ("scikit-learn" :> 70 @@ "sklearn" :> 93 @@ "DynamoDB" :> 12 @@ "SQL" :> 36 @@ "SQS" :> 36) @@
    "PhD" :> ("scikit-learn" :> 0 @@ "sklearn" :> 0 @@ "DynamoDB" :> 18 @@ "SQL" :> 0 @@ "SQS" :> 0) @@
    "Masters" :> ("scikit-learn" :> 21 @@ "sklearn" :> 29 @@ "DynamoDB" :> 13 @@ "SQL" :> 20 @@ "SQS" :> 40) @@
    "MSc" :> ("scikit-learn" :> 27 @@ "sklearn" :> 20 @@ "DynamoDB" :> 18 @@ "SQL" :> 33 @@ "SQS" :> 33) @@
    "systems" :> ("scikit-learn" :> 32 @@ "sklearn" :> 29 @@ "DynamoDB" :> 27 @@ "SQL" :> 20 @@ "SQS" :> 40) @@
    "Bachelor" :> ("scikit-learn" :> 20 @@ "sklearn" :> 27 @@ "DynamoDB" :> 12 @@ "SQL" :> 18 @@ "SQS" :> 0) @@
    "Matric" :> ("scikit-learn" :> 22 @@ "sklearn" :> 31 @@ "DynamoDB" :> 14 @@ "SQL" :> 0 @@ "SQS" :> 0) @@
    "Senior" :> ("scikit-learn" :> 33 @@ "sklearn" :> 46 @@ "DynamoDB" :> 29 @@ "SQL" :> 22 @@ "SQS" :> 22) @@
    "PMP" :> ("scikit-learn" :> 0 @@ "sklearn" :> 0 @@ "DynamoDB" :> 18 @@ "SQL" :> 0 @@ "SQS" :> 0)

fuzz_ratio(candidate, skill) == FuzzRatioTable[candidate][skill]

fuzzy_threshold == 85

\* a scan that takes the first skill of self.all_skills for a full match
BestMatchFirst(candidate, skills) ==
    [best_score |-> 100, best_match |-> skills[1]]

\* the inner loop of the fuzzy pass: the first skill of self.all_skills
\* whose score is greater than every score before it
BestMatch(candidate, skills) ==
    LET best_score == Greatest({fuzz_ratio(candidate, skills[i]) : i \in 1..Len(skills)})
    IN  [best_score |-> best_score,
         best_match |->
            IF best_score = 0 THEN "None"
            ELSE skills[Least({i \in 1..Len(skills) :
                                 fuzz_ratio(candidate, skills[i]) = best_score})]]

\* the skills the fuzzy pass adds to those of the exact pass
FuzzyFound(text, skills, found_exact) ==
    {BestMatch(candidate, skills).best_match :
        candidate \in {c \in Candidates(text) :
                         BestMatch(c, skills).best_score >= fuzzy_threshold}}
    \ found_exact

\* a Counter that leaves out the positions of the fuzzy pass
skill_count_exact_only(text, found_skills, fuzzy) ==
    [skill \in {f \in found_skills : ExactHits(text, f) > 0} |-> ExactHits(text, skill)]

\* Counter([pos['skill'] for pos in skill_positions]): one position for
\* each exact match, one for a skill added by the fuzzy pass
skill_count(text, found_skills, fuzzy) ==
    [skill \in found_skills |->
        ExactHits(text, skill) + (IF skill \in fuzzy THEN 1 ELSE 0)]

\* sorted(): capitals sort before small letters
SortedSkillNames == <<"DynamoDB", "SQL", "SQS", "scikit-learn", "sklearn">>

\* extract_skills (skill_extractor.py:51-150); a bucket of categories is the
\* set of its skills, and skill_positions is left out of the result
extract_skills(text, use_fuzzy, skills) ==
    IF text = <<>> THEN [skills |-> <<>>, skill_count |-> <<>>, categories |-> <<>>]
    ELSE LET found_exact == {skill \in Range(skills) : ExactHits(text, skill) > 0}
             fuzzy == IF use_fuzzy THEN FuzzyFound(text, skills, found_exact) ELSE {}
             found_skills == found_exact \cup fuzzy
             found(skill) == skill \in found_skills
         IN  [skills |-> SelectSeq(SortedSkillNames, found),
              skill_count |-> skill_count(text, found_skills, fuzzy),
              categories |->
                  [category \in {get_skill_category(skill) : skill \in found_skills} |->
                      {skill \in found_skills : get_skill_category(skill) = category}],
              total_skills |-> Cardinality(found_skills)]

\* EDUCATION_LEVELS, in the order of the dict
EDUCATION_LEVELS ==
    <<[level |-> "phd", keywords |-> <<"PhD", "Doctorate">>],
      [level |-> "masters", keywords |-> <<"Master", "Masters", "MSc", "MS">>],
      [level |-> "bachelors", keywords |-> <<"Bachelor", "BSc", "BS">>],
      [level |-> "associate", keywords |-> <<"Associate", "AS">>],
      [level |-> "diploma", keywords |-> <<"Diploma">>],
      [level |-> "high_school", keywords |-> <<"High School", "Matric">>]>>

EXPERIENCE_KEYWORDS ==
    <<[level |-> "senior", keywords |-> <<"Senior", "Lead">>],
      [level |-> "mid", keywords |-> <<"Mid">>],
      [level |-> "junior", keywords |-> <<"Junior", "Associate">>],
      [level |-> "intern", keywords |-> <<"Intern">>]>>

CERTIFICATIONS == <<"PMP", "CSM">>

\* keyword.upper() in word.upper(), for the words and keywords of the model
WordOccurrences ==
    {<<"PhD", "PhD">>, <<"Masters", "Master">>, <<"Masters", "Masters">>,
     <<"Masters", "AS">>, <<"MSc", "MSc">>, <<"MSc", "MS">>, <<"systems", "MS">>,
     <<"Bachelor", "Bachelor">>, <<"Matric", "Matric">>, <<"Senior", "Senior">>,
     <<"PMP", "PMP">>}

\* keyword.upper() in text_upper: no keyword that occurs spans two words
Occurs(keyword, text) == \E i \in 1..Len(text) : <<text[i], keyword>> \in WordOccurrences

AnyOccurs(keywords, text) == \E j \in 1..Len(keywords) : Occurs(keywords[j], text)

\* a scan that keeps the last keyword of the list that occurs
LastKeyword(keywords, text) ==
    keywords[Greatest({j \in 1..Len(keywords) : Occurs(keywords[j], text)})]

\* for keyword in keywords: if keyword.upper() in text_upper: ...; break
FirstKeyword(keywords, text) ==
    keywords[Least({j \in 1..Len(keywords) : Occurs(keywords[j], text)})]

level_hierarchy == <<"high_school", "diploma", "associate", "bachelors", "masters", "phd">>

\* extract_education (skill_extractor.py:152-192); None is "None"
extract_education(text) ==
    LET hit(entry) == AnyOccurs(entry.keywords, text)
        matched == SelectSeq(EDUCATION_LEVELS, hit)
        found_degrees ==
            [i \in 1..Len(matched) |->
                [level |-> matched[i].level,
                 keyword |-> FirstKeyword(matched[i].keywords, text)]]
        ranks == {r \in 1..Len(level_hierarchy) :
                    \E i \in 1..Len(found_degrees) :
                        found_degrees[i].level = level_hierarchy[r]}
    IN  [found_degrees |-> found_degrees,
         highest_level |-> IF ranks = {} THEN "None" ELSE level_hierarchy[Greatest(ranks)],
         has_degree |-> Len(found_degrees) > 0]

\* extract_experience_level (skill_extractor.py:194-216)
extract_experience_level(text) ==
    LET hits == {i \in 1..Len(EXPERIENCE_KEYWORDS) :
                    AnyOccurs(EXPERIENCE_KEYWORDS[i].keywords, text)}
    IN  IF hits = {} THEN "unknown" ELSE EXPERIENCE_KEYWORDS[Least(hits)].level

\* extract_certifications (skill_extractor.py:218-240)
extract_certifications(text) ==
    LET in_text(cert) == Occurs(cert, text)
    IN  SelectSeq(CERTIFICATIONS, in_text)

\* extract_complete_profile (skill_extractor.py:242-285)
extract_complete_profile(text, sections, skills) ==
    [skills |-> extract_skills(text, TRUE, skills),
     education |-> extract_education(text),
     experience_level |-> extract_experience_level(text),
     certifications |-> extract_certifications(text),
     section_skills |->
        [name \in {n \in DOMAIN sections : sections[n] # <<>>} |->
            extract_skills(sections[name], FALSE, skills).skills]]

\* SkillExtractor.__init__: self.all_skills = get_all_skills(); the
\* extractor is built beside the matcher of the API
InitExtract ==
    /\ use_transformers = TRUE
    /\ all_skills \in SkillOrders
    /\ pc = "idle"
    /\ call = NoCall
    /\ result = NoCall
    /\ raised = {}
    /\ upload_dir = {}
    /\ resumes = <<>>

CallExtractSkills ==
    /\ pc = "idle"
    /\ \E text \in SeqsUpTo(SkillWords, MaxWords), use_fuzzy \in BOOLEAN :
          /\ call' = [op |-> "extract_skills", text |-> text, use_fuzzy |-> use_fuzzy]
          /\ result' = extract_skills(text, use_fuzzy, all_skills)
    /\ pc' = "returned"
    /\ raised' = {}
    /\ UNCHANGED <<use_transformers, all_skills, upload_dir, resumes>>

CallExtractEducation ==
    /\ pc = "idle"
    /\ \E text \in SeqsUpTo(EducationWords, MaxWords) :
          /\ call' = [op |-> "extract_education", text |-> text]
          /\ result' = extract_education(text)
    /\ pc' = "returned"
    /\ raised' = {}
    /\ UNCHANGED <<use_transformers, all_skills, upload_dir, resumes>>

CallExtractCompleteProfile ==
    /\ pc = "idle"
    /\ \E text \in SeqsUpTo(ProfileWords, MaxWords), sections \in SectionArgs :
          /\ call' = [op |-> "extract_complete_profile", text |-> text,
                      sections |-> sections]
          /\ result' = extract_complete_profile(text, sections, all_skills)
    /\ pc' = "returned"
    /\ raised' = {}
    /\ UNCHANGED <<use_transformers, all_skills, upload_dir, resumes>>

NextExtract ==
    \/ CallExtractSkills
    \/ CallExtractEducation
    \/ CallExtractCompleteProfile
    \/ Return

SpecExtract == InitExtract /\ [][NextExtract]_vars

(***************************************************************************)
(* The text cleaner (data_processing/text_cleaner.py).  A text is its      *)
(* sequence of lines; no match of a pattern spans two of the model's lines.*)
(***************************************************************************)
ContactLines ==
    {"jane@x.org", "bob@y.org", "Cell: +27 82 123 4567", "Cell: 082 123 4567",
     "Tel: (011) 555 1234", "linkedin.com/in/jane", "https://github.com/jane",
     "Summary"}

\* re.finditer(pattern, line): the complete match and, for phone_pattern,
\* what its one capturing group (\+?\d{1,3}[-.\s]?)? holds after backtracking
Matches(pattern, line) ==
    CASE pattern = "email_pattern" /\ line = "jane@x.org" ->
            <<[complete |-> "jane@x.org"]>>
      [] pattern = "email_pattern" /\ line = "bob@y.org" ->
            <<[complete |-> "bob@y.org"]>>
      [] pattern = "phone_pattern" /\ line = "Cell: +27 82 123 4567" ->
            <<[complete |-> "+27 82 123 4567", group |-> "+27 "]>>
      [] pattern = "phone_pattern" /\ line = "Cell: 082 123 4567" ->
            <<[complete |-> "082 123 4567", group |-> "0"]>>
      [] pattern = "phone_pattern" /\ line = "Tel: (011) 555 1234" ->
            <<[complete |-> "(011) 555 1234", group |-> ""]>>
      [] pattern = "linkedin_pattern" /\ line = "linkedin.com/in/jane" ->
            <<[complete |-> "linkedin.com/in/jane"]>>
      [] pattern = "github_pattern" /\ line = "https://github.com/jane" ->
            <<[complete |-> "github.com/jane"]>>
      [] pattern = "url_pattern" /\ line = "https://github.com/jane" ->
            <<[complete |-> "https://github.com/jane"]>>
      [] OTHER -> <<>>

\* re.findall: the group of a match when the pattern has one group, the
\* complete match when it has none
RECURSIVE findall(_, _)
findall(pattern, text) ==
    IF text = <<>> THEN <<>>
    ELSE LET n == Len(text)
             found == Matches(pattern, text[n])
         IN  findall(pattern, SubSeq(text, 1, n - 1)) \o
             [i \in 1..Len(found) |->
                 IF "group" \in DOMAIN found[i] THEN found[i].group
                 ELSE found[i].complete]

\* x[0] if x else None
FirstOrNone(found) == IF found = <<>> THEN "None" ELSE found[1]

\* extract_contact_info (text_cleaner.py:53-89)
extract_contact_info(text) ==
    [email |-> FirstOrNone(findall("email_pattern", text)),
     phone |-> FirstOrNone(findall("phone_pattern", text)),
     linkedin |-> FirstOrNone(findall("linkedin_pattern", text)),
     github |-> FirstOrNone(findall("github_pattern", text)),
     urls |-> findall("url_pattern", text)]

RangeYears == {1960, 2015, 2018, 2020}

\* "3 years of experience", "Experience: 5 years", "3-5 years of
\* experience", "2015 - 2018", "1998 - Present", "Summary"
ExperienceLines ==
    {[kind |-> "phrase", years |-> 3], [kind |-> "phrase", years |-> 12],
     [kind |-> "labelled", years |-> 5],
     [kind |-> "span", low |-> 3, high |-> 5],
     [kind |-> "open", start |-> 1998], [kind |-> "open", start |-> 2019],
     [kind |-> "other"]}
    \cup {[kind |-> "range", start |-> a, end |-> b] : a, b \in RangeYears}

\* the four characters of a year, each a string of one digit
Digits(year) ==
    <<year \div 1000, (year \div 100) % 10, (year \div 10) % 10, year % 10>>

\* int() of a string of digits
RECURSIVE ToInt(_)
ToInt(digits) ==
    IF digits = <<>> THEN 0
    ELSE ToInt(SubSeq(digits, 1, Len(digits) - 1)) * 10 + digits[Len(digits)]

IsDigit(string) == string # <<>> /\ \A i \in 1..Len(string) : string[i] \in 0..9

\* the numbers the three phrase patterns capture in a line: the span is
\* matched by the third pattern (its low end) and by the first (its high end)
PhraseYears(line) ==
    CASE line.kind \in {"phrase", "labelled"} -> {line.years}
      [] line.kind = "span" -> {line.low, line.high}
      [] OTHER -> {}

\* findall of a date pattern.  (\d{4})\s*-\s*(\d{4}) has two groups and
\* yields a tuple of two strings; (\d{4})\s*-\s*(?:present|current) has one
\* group and yields the string itself, whose items are its characters
RECURSIVE DateMatches(_, _)
DateMatches(pattern, text) ==
    IF text = <<>> THEN <<>>
    ELSE LET n == Len(text)
             line == text[n]
             before == DateMatches(pattern, SubSeq(text, 1, n - 1))
         IN  IF pattern = 1 /\ line.kind = "range"
             THEN Append(before, <<Digits(line.start), Digits(line.end)>>)
             ELSE IF pattern = 2 /\ line.kind = "open"
             THEN Append(before, [i \in 1..4 |-> <<Digits(line.start)[i]>>])
             ELSE before

current_year == 2024

\* the body of the loop over the matches of a date pattern
Duration(match) ==
    LET start_year == ToInt(match[1])
        end_year == IF Len(match) > 1 /\ IsDigit(match[2]) THEN ToInt(match[2])
                    ELSE current_year
        duration == end_year - start_year
    IN  IF 0 < duration /\ duration < 50 THEN duration ELSE 0

RECURSIVE TotalDuration(_)
TotalDuration(matches) ==
    IF matches = <<>> THEN 0
    ELSE TotalDuration(SubSeq(matches, 1, Len(matches) - 1))
         + Duration(matches[Len(matches)])

\* extract_years_of_experience (text_cleaner.py:216-270)
extract_years_of_experience(text) ==
    LET max_years == Greatest({0} \cup UNION {PhraseYears(text[i]) : i \in 1..Len(text)})
        total_experience ==
            TotalDuration(DateMatches(1, text)) + TotalDuration(DateMatches(2, text))
    IN  IF max_years >= total_experience THEN max_years ELSE total_experience

\* the lines of the texts given to extract_name; "" is an empty line
NameLines ==
    {"", "Jane Doe", "Senior Data Engineer", "jane@x.org", "curriculum vitae of Jane Doe"}

\* line.split()
LineWords(line) ==
    CASE line = "Jane Doe" -> <<"Jane", "Doe">>
      [] line = "Senior Data Engineer" -> <<"Senior", "Data", "Engineer">>
      [] line = "jane@x.org" -> <<"jane@x.org">>
      [] line = "curriculum vitae of Jane Doe" ->
            <<"curriculum", "vitae", "of", "Jane", "Doe">>
      [] OTHER -> <<>>

\* word[0].isupper()
UpperInitial(word) == word \in {"Jane", "Doe", "Senior", "Data", "Engineer"}

\* text.strip().split('\n'): the empty lines at both ends are gone
RECURSIVE StripLines(_)
StripLines(lines) ==
    IF lines = <<>> THEN <<>>
    ELSE IF lines[1] = "" THEN StripLines(SubSeq(lines, 2, Len(lines)))
    ELSE IF lines[Len(lines)] = "" THEN StripLines(SubSeq(lines, 1, Len(lines) - 1))
    ELSE lines

\* the body of the loop of extract_name: the line is returned
LooksLikeName(line) ==
    /\ line # ""
    /\ Matches("email_pattern", line) = <<>>
    /\ Matches("phone_pattern", line) = <<>>
    /\ Matches("url_pattern", line) = <<>>
    /\ 2 <= Len(LineWords(line))
    /\ Len(LineWords(line)) <= 4
    /\ \A i \in 1..Len(LineWords(line)) : UpperInitial(LineWords(line)[i])

\* extract_name (text_cleaner.py:91-130): for line in lines[:5]
extract_name(text) ==
    LET lines == StripLines(text)
        examined == SubSeq(lines, 1, IF Len(lines) < 5 THEN Len(lines) ELSE 5)
        hits == {i \in 1..Len(examined) : LooksLikeName(examined[i])}
    IN  IF hits = {} THEN "None" ELSE examined[Least(hits)]

\* The texts given to extract_sections are words and line breaks; two words
\* that follow each other on a line have one space between them. In
\* "proficient" the letters f and i are the one ligature character U+FB01, as
\* the text layer of a PDF often has it.
SectionTokens == {"\n", "Skills", "SUMMARY", "Profile", "Python", "in", "proficient"}

RECURSIVE Spaced(_)
Spaced(text) ==
    IF Len(text) <= 1 THEN text
    ELSE LET front == SubSeq(text, 1, Len(text) - 1)
             last == text[Len(text)]
         IN  IF last = "\n" \/ front[Len(front)] = "\n"
             THEN Append(Spaced(front), last)
             ELSE Spaced(front) \o <<" ", last>>

\* str.upper() of a word
Upper(token) ==
    CASE token = "Skills" -> "SKILLS"
      [] token = "Profile" -> "PROFILE"
      [] token = "Python" -> "PYTHON"
      [] token = "in" -> "IN"
      [] token = "proficient" -> "PROFICIENT"
      [] OTHER -> token

\* len() of a word of the text
RawLen(token) ==
    CASE token \in {"\n", " "} -> 1
      [] token = "in" -> 2
      [] token \in {"Skills", "Python"} -> 6
      [] token \in {"SUMMARY", "Profile"} -> 7
      [] token = "proficient" -> 9

\* len() of the word in text.upper(): the ligature becomes the two letters FI
UpperLen(token) == IF token = "proficient" THEN 10 ELSE RawLen(token)

\* the index in text.upper() at which the i-th element of s starts
RECURSIVE UpperOffset(_, _)
UpperOffset(s, i) ==
    IF i = 1 THEN 0 ELSE UpperOffset(s, i - 1) + UpperLen(s[i - 1])

\* the index in text at which the i-th element of s starts
RECURSIVE RawOffset(_, _)
RawOffset(s, i) ==
    IF i = 1 THEN 0 ELSE RawOffset(s, i - 1) + RawLen(s[i - 1])

\* section_keywords (text_cleaner.py:151-160), in the order of the dict and
\* of each list
section_keywords ==
    << [section_name |-> "summary",
        keywords |-> << <<"SUMMARY">>, <<"PROFILE">>, <<"OBJECTIVE">>, <<"ABOUT">>,
                        <<"PROFESSIONAL", " ", "SUMMARY">> >>],
       [section_name |-> "experience",
        keywords |-> << <<"EXPERIENCE">>, <<"WORK", " ", "HISTORY">>, <<"EMPLOYMENT">>,
                        <<"PROFESSIONAL", " ", "EXPERIENCE">>,
                        <<"WORK", " ", "EXPERIENCE">> >>],
       [section_name |-> "education",
        keywords |-> << <<"EDUCATION">>, <<"ACADEMIC">>, <<"QUALIFICATIONS">>,
                        <<"ACADEMIC", " ", "BACKGROUND">> >>],
       [section_name |-> "skills",
        keywords |-> << <<"SKILLS">>, <<"TECHNICAL", " ", "SKILLS">>,
                        <<"CORE", " ", "COMPETENCIES">>, <<"EXPERTISE">>,
                        <<"TECHNICAL", " ", "EXPERTISE">> >>],
       [section_name |-> "certifications",
        keywords |-> << <<"CERTIFICATIONS">>, <<"CERTIFICATES">>, <<"LICENSES">>,
                        <<"PROFESSIONAL", " ", "CERTIFICATIONS">> >>],
       [section_name |-> "projects",
        keywords |-> << <<"PROJECTS">>, <<"KEY", " ", "PROJECTS">>,
                        <<"NOTABLE", " ", "PROJECTS">> >>],
       [section_name |-> "awards",
        keywords |-> << <<"AWARDS">>, <<"HONORS">>, <<"ACHIEVEMENTS">>,
                        <<"RECOGNITION">> >>],
       [section_name |-> "publications",
        keywords |-> << <<"PUBLICATIONS">>, <<"PAPERS">>, <<"RESEARCH">> >>] >>

\* the keyword stands in text.upper() at the i-th element of s
KeywordAt(s, keyword, i) ==
    /\ i + Len(keyword) - 1 <= Len(s)
    /\ \A k \in 1..Len(keyword) : Upper(s[i + k - 1]) = keyword[k]

\* text_upper.find(keyword): the first occurrence, 0 for -1
find(s, keyword) ==
    LET hits == {i \in 1..Len(s) : KeywordAt(s, keyword, i)}
    IN  IF hits = {} THEN 0 ELSE Least(hits)

\* text_upper.rfind('\n', 0, pos): the last line break before i, 0 for -1
rfind_newline(s, i) ==
    LET breaks == {j \in 1..(i - 1) : s[j] = "\n"}
    IN  IF breaks = {} THEN 0 ELSE Greatest(breaks)

\* text_cleaner.py:172
IsHeader(s, i) ==
    LET start_of_line == rfind_newline(s, i)
    IN  \/ start_of_line = 0
        \/ UpperOffset(s, i) - UpperOffset(s, start_of_line) < 5

\* a header of the section as the loop at text_cleaner.py:165-174 first tries
\* the keywords in the order of the list
FirstListedHeader(s, keywords) ==
    LET headers == {k \in 1..Len(keywords) :
                        /\ find(s, keywords[k]) # 0
                        /\ IsHeader(s, find(s, keywords[k]))}
    IN  IF headers = {} THEN <<>> ELSE <<keywords[Least(headers)]>>

\* section_positions before the sort: (pos, section_name, keyword)
\* for the sections whose chosen keyword is given
PositionsBy(chosen, s) ==
    {[pos |-> UpperOffset(s, find(s, chosen[n][1])),
      section_name |-> section_keywords[n].section_name,
      keyword |-> chosen[n][1]] :
        n \in {m \in 1..Len(section_keywords) : chosen[m] # <<>>}}

\* the keyword the loop settles on for each section
ListedHeaders(s) ==
    [n \in 1..Len(section_keywords) |->
        FirstListedHeader(s, section_keywords[n].keywords)]

\* section_positions.sort(): no two sections have their header at one index
SortByPos(positions) ==
    [i \in 1..Cardinality(positions) |->
        CHOOSE p \in positions :
            Cardinality({q \in positions : q.pos < p.pos}) = i - 1]

\* text[a:b] as the parts of the elements of s that lie in it
RawSlice(s, a, b) ==
    LET part(i) ==
            [token |-> s[i],
             from |-> (IF a > RawOffset(s, i) THEN a ELSE RawOffset(s, i)) - RawOffset(s, i),
             to |-> (IF b < RawOffset(s, i + 1) THEN b ELSE RawOffset(s, i + 1))
                        - RawOffset(s, i)]
        parts == [i \in 1..Len(s) |-> part(i)]
        inside(p) == p.from < p.to
    IN  SelectSeq(parts, inside)

\* str.strip()
RECURSIVE StripParts(_)
StripParts(parts) ==
    IF parts = <<>> THEN <<>>
    ELSE IF parts[1].token \in {"\n", " "} THEN StripParts(Tail(parts))
    ELSE IF parts[Len(parts)].token \in {"\n", " "}
         THEN StripParts(SubSeq(parts, 1, Len(parts) - 1))
    ELSE parts

\* re.sub(f'^{re.escape(keyword)}[:\s]*', '', section_text, flags=re.IGNORECASE)
\* followed by strip()
RemoveHeader(parts, keyword) ==
    IF /\ Len(parts) >= Len(keyword)
       /\ \A k \in 1..Len(keyword) :
             /\ parts[k].from = 0
             /\ parts[k].to = RawLen(parts[k].token)
             /\ Upper(parts[k].token) = keyword[k]
    THEN StripParts(SubSeq(parts, Len(keyword) + 1, Len(parts)))
    ELSE parts

\* text_cleaner.py:176-194: the sections in the order of their insertion
SectionsFrom(s, section_positions) ==
    [i \in 1..Len(section_positions) |->
        LET pos == section_positions[i].pos
            end_pos == IF i < Len(section_positions)
                       THEN section_positions[i + 1].pos
                       ELSE RawOffset(s, Len(s) + 1)
        IN  [section_name |-> section_positions[i].section_name,
             text |-> RemoveHeader(StripParts(RawSlice(s, pos, end_pos)),
                                   section_positions[i].keyword)]]

\* extract_sections (text_cleaner.py:132-196)
extract_sections(text) ==
    SectionsFrom(Spaced(text), SortByPos(PositionsBy(ListedHeaders(Spaced(text)), Spaced(text))))

\* TextCleaner.__init__ sets the patterns; the matcher and the extractor of
\* the process stand as the API builds them
InitText ==
    /\ use_transformers = TRUE
    /\ all_skills = SkillsAsListed
    /\ pc = "idle"
    /\ call = NoCall
    /\ result = NoCall
    /\ raised = {}
    /\ upload_dir = {}
    /\ resumes = <<>>

CallExtractContactInfo ==
    /\ pc = "idle"
    /\ \E text \in SeqsUpTo(ContactLines, MaxLines) :
          /\ call' = [op |-> "extract_contact_info", text |-> text]
          /\ result' = extract_contact_info(text)
    /\ pc' = "returned"
    /\ raised' = {}
    /\ UNCHANGED <<use_transformers, all_skills, upload_dir, resumes>>

CallExtractYearsOfExperience ==
    /\ pc = "idle"
    /\ \E text \in SeqsUpTo(ExperienceLines, MaxLines) :
          /\ call' = [op |-> "extract_years_of_experience", text |-> text]
          /\ result' = [returns |-> extract_years_of_experience(text)]
    /\ pc' = "returned"
    /\ raised' = {}
    /\ UNCHANGED <<use_transformers, all_skills, upload_dir, resumes>>

CallExtractName ==
    /\ pc = "idle"
    /\ \E text \in SeqsUpTo(NameLines, MaxNameLines) :
          /\ call' = [op |-> "extract_name", text |-> text]
          /\ result' = [returns |-> extract_name(text)]
    /\ pc' = "returned"
    /\ raised' = {}
    /\ UNCHANGED <<use_transformers, all_skills, upload_dir, resumes>>

CallExtractSections ==
    /\ pc = "idle"
    /\ \E text \in SeqsUpTo(SectionTokens, MaxTokens) :
          /\ call' = [op |-> "extract_sections", text |-> text]
          /\ result' = [returns |-> extract_sections(text)]
    /\ pc' = "returned"
    /\ raised' = {}
    /\ UNCHANGED <<use_transformers, all_skills, upload_dir, resumes>>

NextText ==
    \/ CallExtractContactInfo
    \/ CallExtractName
    \/ CallExtractSections
    \/ CallExtractYearsOfExperience
    \/ Return

SpecText == InitText /\ [][NextText]_vars

(***************************************************************************)
(* POST /resume/upload (api/main_with_db.py:149-225).  The handler has no  *)
(* await: a request runs from its first to its last line before the next   *)
(* one starts.  The file system, the parser and the database are external: *)
(* each of their calls returns or raises.                                  *)
(***************************************************************************)
UploadFilenames == {"a.pdf", "B.PDF", "c.docx", "d.exe"}

\* os.path.splitext(file.filename)[1].lower()
file_ext(filename) ==
    CASE filename \in {"a.pdf", "B.PDF"} -> ".pdf"
      [] filename = "c.docx" -> ".docx"
      [] filename = "d.exe" -> ".exe"

allowed_extensions == {".pdf", ".docx", ".txt"}

\* the call of the request that raises: open() or shutil.copyfileobj in
\* save_upload_file, document_parser.parse_file, db.commit() or db.refresh()
\* in crud.create_resume; or none
FailurePoints == {"none", "open", "copyfileobj", "parse_file", "commit", "refresh"}

\* crud.get_resume_by_filename
get_resume_by_filename(rows, filename) == \E i \in 1..Len(rows) : rows[i] = filename

\* upload_resume: the status of the response and the directory and the
\* table the request leaves behind.  An exception outside the try block
\* leaves the handler and is answered with status 500.
upload_resume(filename, fails_at, files, rows) ==
    IF file_ext(filename) \notin allowed_extensions
    THEN [status |-> 400, upload_dir |-> files, resumes |-> rows]
    ELSE IF get_resume_by_filename(rows, filename)
    THEN [status |-> 400, upload_dir |-> files, resumes |-> rows]
    ELSE IF fails_at = "open"
    THEN [status |-> 500, upload_dir |-> files, resumes |-> rows]
    ELSE IF fails_at = "copyfileobj"
    THEN [status |-> 500, upload_dir |-> files \cup {filename}, resumes |-> rows]
    ELSE IF fails_at \in {"parse_file", "commit"}
    THEN [status |-> 500, upload_dir |-> files \ {filename}, resumes |-> rows]
    ELSE IF fails_at = "refresh"
    THEN [status |-> 500, upload_dir |-> files \ {filename},
          resumes |-> Append(rows, filename)]
    ELSE [status |-> 200, upload_dir |-> files \cup {filename},
          resumes |-> Append(rows, filename)]

\* the store is empty before the first request
InitUpload ==
    /\ use_transformers = TRUE
    /\ all_skills = SkillsAsListed
    /\ pc = "idle"
    /\ call = NoCall
    /\ result = NoCall
    /\ raised = {}
    /\ upload_dir = {}
    /\ resumes = <<>>

CallUploadResume ==
    /\ pc = "idle"
    /\ \E filename \in UploadFilenames, fails_at \in FailurePoints :
          LET response == upload_resume(filename, fails_at, upload_dir, resumes)
          IN  /\ call' = [op |-> "upload_resume", filename |-> filename,
                          fails_at |-> fails_at, resumes |-> resumes]
              /\ result' = [status |-> response.status]
              /\ upload_dir' = response.upload_dir
              /\ resumes' = response.resumes
    /\ pc' = "returned"
    /\ raised' = {}
    /\ UNCHANGED <<use_transformers, all_skills>>

NextUpload ==
    \/ CallUploadResume
    \/ Return

SpecUpload == InitUpload /\ [][NextUpload]_vars

(***************************************************************************)
(* Vocabulary of the properties.                                           *)
(***************************************************************************)
Abs(x) == IF x < 0 THEN -x ELSE x

\* r is n / d rounded to the nearest integer (either neighbour at a tie)
IsRounded(r, n, d) == 2 * Abs(r * d - n) <= d

\* a skill list as a case-insensitive set
CaseInsensitive(seq) == {Lower(x) : x \in Range(seq)}

Returned(op) == pc = "returned" /\ call.op = op

SumOfWeights(w) ==
    w.skills + w.experience + w.education + w.text_similarity + w.semantic_similarity

(***************************************************************************)
(* C1: calculate_skill_match, for every candidate list A and non-empty     *)
(* required list B: match_percentage is 100 * |A n B| / |B| rounded to 2   *)
(* decimals (A, B as case-insensitive sets), and matched_skills and        *)
(* missing_skills together cover exactly B and share no skill.             *)
(***************************************************************************)
C1_SkillMatchPercentageAndCover ==
    (Returned("calculate_skill_match") /\ call.job_skills # <<>>) =>
        LET A == CaseInsensitive(call.resume_skills)
            B == CaseInsensitive(call.job_skills)
        IN  /\ IsRounded(result.match_percentage,
                         Cardinality(A \cap B) * Hundredths(100), Cardinality(B))
            /\ CaseInsensitive(result.matched_skills)
                  \cup CaseInsensitive(result.missing_skills) = B
            /\ CaseInsensitive(result.matched_skills)
                  \cap CaseInsensitive(result.missing_skills) = {}

\* one of two required skills is held, under another casing: 50.0
C1_Witness ==
    /\ Returned("calculate_skill_match")
    /\ call.resume_skills = <<"python", "Docker">>
    /\ call.job_skills = <<"Python", "AWS">>
    /\ result.match_percentage = 5000
    /\ result.matched_skills = <<"Python">>
    /\ result.missing_skills = <<"AWS">>

(***************************************************************************)
(* C2: calculate_skill_match with an empty required list returns, for any  *)
(* candidate list, match_percentage 0 and empty matched_skills and         *)
(* missing_skills (a result, not an error).                                *)
(***************************************************************************)
C2_EmptyRequiredIsZeroMatch ==
    (Returned("calculate_skill_match") /\ call.job_skills = <<>>) =>
        /\ {"match_percentage", "matched_skills", "missing_skills"}
              \subseteq DOMAIN result
        /\ result.match_percentage = 0
        /\ result.matched_skills = <<>>
        /\ result.missing_skills = <<>>

C2_Witness ==
    /\ Returned("calculate_skill_match")
    /\ call.resume_skills = <<"Python", "AWS">>
    /\ call.job_skills = <<>>
    /\ result.match_percentage = 0

(***************************************************************************)
(* C3: in every result of calculate_skill_match the returned fields        *)
(* satisfy match_percentage = total_matched / total_required * 100 (read   *)
(* here up to the rounding to 2 decimals) when total_required > 0, and     *)
(* match_percentage = 0 otherwise, also for required lists that repeat a   *)
(* skill or hold it in two casings.  The code counts total_required over   *)
(* the list and the percentage over the lowered set: violated.             *)
(***************************************************************************)
C3_PercentageFromReturnedTotals ==
    Returned("calculate_skill_match") =>
        IF "total_required" \in DOMAIN result /\ result.total_required > 0
        THEN IsRounded(result.match_percentage,
                       result.total_matched * Hundredths(100), result.total_required)
        ELSE result.match_percentage = 0

(***************************************************************************)
(* C4, as claimed: calculate_experience_match, for required years > 0,     *)
(* scores 100 when candidate years >= required years and exactly           *)
(* 100 * candidateYears / requiredYears otherwise, meets_requirement true  *)
(* exactly in the first case; for required years = 0 it scores 100 with    *)
(* meets_requirement true.  The code rounds the quotient: violated.        *)
(***************************************************************************)
C4_ExperienceScoreExact ==
    Returned("calculate_experience_match") =>
        LET c == call.resume_years
            r == call.job_required_years
        IN  IF r = 0 \/ c >= r
            THEN result.score = Hundredths(100) /\ result.meets_requirement
            ELSE /\ result.score * r = c * Hundredths(100)
                 /\ ~result.meets_requirement

(***************************************************************************)
(* C4, amended: as C4, the partial score being 100 * candidateYears /      *)
(* requiredYears rounded to 2 decimals.                                    *)
(***************************************************************************)
C4_ExperienceScoreRounded ==
    Returned("calculate_experience_match") =>
        LET c == call.resume_years
            r == call.job_required_years
        IN  IF r = 0 \/ c >= r
            THEN result.score = Hundredths(100) /\ result.meets_requirement
            ELSE /\ IsRounded(result.score, c * Hundredths(100), r)
                 /\ ~result.meets_requirement

\* 3 years against 5 required: 60.0, not met; and 5 against 5 is met
C4_Witness ==
    /\ Returned("calculate_experience_match")
    /\ call.resume_years = 3
    /\ call.job_required_years = 5
    /\ result.score = 6000
    /\ ~result.meets_requirement

(***************************************************************************)
(* C5: calculate_experience_match returns difference = candidateYears -    *)
(* requiredYears for every pair, required years = 0 included.  The code    *)
(* returns difference 0 whenever required years = 0: violated.             *)
(***************************************************************************)
C5_DifferenceIsSigned ==
    Returned("calculate_experience_match") =>
        result.difference = call.resume_years - call.job_required_years

(***************************************************************************)
(* C6, as claimed: calculate_education_match scores 100 with               *)
(* meets_requirement true when the required level is unranked or the       *)
(* candidate rank >= the required rank; otherwise exactly candidateRank /  *)
(* requiredRank * 70, never above 70, with meets_requirement false; and    *)
(* for a fixed required level the score never decreases as the candidate   *)
(* rank grows.  The code rounds the quotient: violated.                    *)
(***************************************************************************)
C6_EducationScoreExact ==
    Returned("calculate_education_match") =>
        LET cr == education_hierarchy(call.resume_education)
            jr == education_hierarchy(call.job_education)
        IN  /\ IF jr = 0 \/ cr >= jr
               THEN result.score = Hundredths(100) /\ result.meets_requirement
               ELSE /\ result.score * jr = cr * Hundredths(70)
                    /\ result.score <= Hundredths(70)
                    /\ ~result.meets_requirement
            /\ \A lower \in EducationValues :
                  education_hierarchy(lower) <= cr =>
                      calculate_education_match(lower, call.job_education).score
                          <= result.score

(***************************************************************************)
(* C6, amended: as C6, the partial score being candidateRank /             *)
(* requiredRank * 70 rounded to 2 decimals.                                *)
(***************************************************************************)
C6_EducationScoreRounded ==
    Returned("calculate_education_match") =>
        LET cr == education_hierarchy(call.resume_education)
            jr == education_hierarchy(call.job_education)
        IN  /\ IF jr = 0 \/ cr >= jr
               THEN result.score = Hundredths(100) /\ result.meets_requirement
               ELSE /\ IsRounded(result.score, cr * Hundredths(70), jr)
                    /\ result.score <= Hundredths(70)
                    /\ ~result.meets_requirement
            /\ \A lower \in EducationValues :
                  education_hierarchy(lower) <= cr =>
                      calculate_education_match(lower, call.job_education).score
                          <= result.score

\* bachelors against masters: 4 / 5 * 70 = 56.0, not met
C6_Witness ==
    /\ Returned("calculate_education_match")
    /\ call.resume_education = "bachelors"
    /\ call.job_education = "masters"
    /\ result.score = 5600
    /\ ~result.meets_requirement

(***************************************************************************)
(* C7: in every result of calculate_overall_fit_score, fit_level is the    *)
(* step function of the returned overall_score: Excellent iff >= 80, Good  *)
(* iff in [60, 80), Fair iff in [40, 60), Poor iff < 40.  The code decides *)
(* the level before it rounds the score: violated.                         *)
(***************************************************************************)
C7_FitLevelOfReturnedScore ==
    Returned("calculate_overall_fit_score") =>
        result.fit_level =
            IF result.overall_score >= Hundredths(80) THEN "Excellent"
            ELSE IF result.overall_score >= Hundredths(60) THEN "Good"
            ELSE IF result.overall_score >= Hundredths(40) THEN "Fair"
            ELSE "Poor"

(***************************************************************************)
(* C8: overall_score is the weighted sum of the five returned sub-scores   *)
(* rounded to 2 decimals, under the caller's weights when given and        *)
(* otherwise under the defaults 0.40/0.20/0.15/0.15/0.10, which sum to     *)
(* 1.0; the weights used are returned as weights_used.                     *)
(***************************************************************************)
C8_OverallIsWeightedSum ==
    Returned("calculate_overall_fit_score") =>
        LET w == IF call.weights = <<>>
                 THEN [skills |-> 40, experience |-> 20, education |-> 15,
                       text_similarity |-> 15, semantic_similarity |-> 10]
                 ELSE call.weights[1]
        IN  /\ result.weights_used = w
            /\ call.weights = <<>> => SumOfWeights(w) = 100
            /\ IsRounded(result.overall_score,
                         result.skill_match.match_percentage * w.skills
                         + result.experience_match.score * w.experience
                         + result.education_match.score * w.education
                         + result.text_similarity * w.text_similarity
                         + result.semantic_similarity * w.semantic_similarity,
                         100)

\* caller's weights 0.5/0.2/0.1/0.1/0.1 on 50 / 100 / 100 / 33.31 / 99.97
C8_Witness ==
    /\ Returned("calculate_overall_fit_score")
    /\ call.weights = <<[skills |-> 50, experience |-> 20, education |-> 10,
                         text_similarity |-> 10, semantic_similarity |-> 10]>>
    /\ result.skill_match.match_percentage = 5000
    /\ result.education_match.score = Hundredths(100)
    /\ result.text_similarity = 3331
    /\ result.semantic_similarity = 9997
    /\ result.overall_score = 6833

C10_DisabledSemanticCapsScore ==
    (Returned("calculate_overall_fit_score") /\ ~use_transformers) =>
        /\ result.semantic_similarity = 0
        /\ call.weights # <<>> => result.weights_used = call.weights[1]
        /\ call.weights = <<>> =>
              /\ result.weights_used.semantic_similarity = 10
              /\ SumOfWeights(result.weights_used) = 100
              /\ result.overall_score <= Hundredths(90)

\* every other sub-score at 100 under the default weights: exactly 90.0
C10_Witness ==
    /\ Returned("calculate_overall_fit_score")
    /\ ~use_transformers
    /\ call.weights = <<>>
    /\ result.text_similarity = Hundredths(100)
    /\ result.overall_score = Hundredths(90)

(***************************************************************************)
(* C11: when the vectoriser or the encoder raises for a pair of texts,     *)
(* calculate_text_similarity / calculate_semantic_similarity returns 0     *)
(* instead of propagating the error, and calculate_overall_fit_score still *)
(* returns a complete FitResult whose corresponding similarity is 0 and    *)
(* whose other sub-scores are what they are without the failure.           *)
(***************************************************************************)
C11_FailSoftSimilarity ==
    /\ (Returned("calculate_text_similarity") /\ "vectoriser" \in raised) =>
          result.returns = 0
    /\ (Returned("calculate_semantic_similarity") /\ "encoder" \in raised) =>
          result.returns = 0
    /\ (Returned("calculate_overall_fit_score") /\ raised # {}) =>
          /\ DOMAIN result =
                {"overall_score", "fit_level", "skill_match", "experience_match",
                 "education_match", "text_similarity", "semantic_similarity",
                 "weights_used"}
          /\ "vectoriser" \in raised => result.text_similarity = 0
          /\ "encoder" \in raised => result.semantic_similarity = 0
          /\ result.skill_match =
                calculate_skill_match(call.resume_data.skills, call.job_data.skills)
          /\ result.experience_match =
                calculate_experience_match(call.resume_data.years_experience, 0)
          /\ result.education_match =
                calculate_education_match(call.resume_data.highest_level,
                                          call.job_data.highest_level)

\* both capabilities raise during one fit score; the half-matched skills
\* still count: 0.4 * 50 + 0.2 * 100 + 0.15 * 100 = 55.0
C11_Witness ==
    /\ Returned("calculate_overall_fit_score")
    /\ raised = {"vectoriser", "encoder"}
    /\ call.weights = <<>>
    /\ result.text_similarity = 0
    /\ result.semantic_similarity = 0
    /\ result.skill_match.match_percentage = 5000
    /\ result.education_match.score = Hundredths(100)
    /\ result.overall_score = 5500

(***************************************************************************)
(* C12: batch matching returns the candidates' results sorted by           *)
(* overall_score in descending order, and the sort is stable: candidates   *)
(* with equal overall_score appear in the same relative order as in the    *)
(* input list of resumes.                                                  *)
(***************************************************************************)
FilenamesOf(matches) == [i \in 1..Len(matches) |-> matches[i].filename]

\* the files of the input list that were matched with the given score, in
\* input order: a present file has one score per job
MatchedWithScore(score) ==
    LET scored(filename) ==
            \E i \in 1..Len(result.matches) :
                /\ result.matches[i].filename = filename
                /\ result.matches[i].overall_score = score
    IN  SelectSeq(call.resume_files, scored)

C12_BatchSortedDescendingStable ==
    (Returned("match_batch_resumes") /\ result.status = 200) =>
        LET matches == result.matches
        IN  /\ \A i, j \in 1..Len(matches) :
                  i < j => matches[i].overall_score >= matches[j].overall_score
            /\ \A i \in 1..Len(matches) :
                  LET score == matches[i].overall_score
                      same(m) == m.overall_score = score
                  IN  FilenamesOf(SelectSeq(matches, same)) = MatchedWithScore(score)

\* c.pdf and a.pdf hold the same resume and tie at 75.0, b.pdf scores 100.0:
\* b.pdf moves to the front and c.pdf stays before a.pdf
C12_Witness ==
    /\ Returned("match_batch_resumes")
    /\ result.status = 200
    /\ call.resume_files = <<"c.pdf", "a.pdf", "b.pdf">>
    /\ FilenamesOf(result.matches) = <<"b.pdf", "c.pdf", "a.pdf">>
    /\ result.matches[1].overall_score = Hundredths(100)
    /\ result.matches[2].overall_score = 7500
    /\ result.matches[3].overall_score = 7500

(***************************************************************************)
(* C17: the recommendations of a match result are, in order: one skill     *)
(* suggestion when skills are missing (naming them when at most 3, giving  *)
(* their count when more), a gain-experience suggestion when the           *)
(* experience requirement is not met, a further-education suggestion when  *)
(* the education requirement is not met, and last exactly one overall-fit  *)
(* remark chosen by the thresholds 80/60/40 on overall_score; this for     *)
(* every match result the match endpoints return.                          *)
(***************************************************************************)
IsSkillSuggestion(r, missing) ==
    IF Len(missing) <= 3
    THEN r = [text |-> "Consider acquiring", skills |-> missing]
    ELSE r = [text |-> "Focus on developing missing skills", count |-> Len(missing)]

IsFitRemark(r, score) ==
    r.text = CASE score >= Hundredths(80) ->
                     "Excellent fit - Highly recommended for interview"
               [] score < Hundredths(80) /\ score >= Hundredths(60) ->
                     "Good fit - Recommend for initial screening"
               [] score < Hundredths(60) /\ score >= Hundredths(40) ->
                     "Moderate fit - May be suitable for entry-level roles"
               [] score < Hundredths(40) ->
                     "Consider other opportunities better aligned with skills"

RecommendationsInOrder(recommendations, match) ==
    LET missing == match.skill_match.missing_skills
        skill == IF missing # <<>> THEN 1 ELSE 0
        experience == IF ~match.experience_match.meets_requirement THEN 1 ELSE 0
        education == IF ~match.education_match.meets_requirement THEN 1 ELSE 0
    IN  /\ Len(recommendations) = skill + experience + education + 1
        /\ skill = 1 => IsSkillSuggestion(recommendations[1], missing)
        /\ experience = 1 =>
              recommendations[skill + 1].text = "Gain more relevant work experience"
        /\ education = 1 =>
              recommendations[skill + experience + 1].text =
                  "Consider pursuing additional education/certifications"
        /\ IsFitRemark(recommendations[Len(recommendations)], match.overall_score)

C17_RecommendationsInOrder ==
    /\ Returned("generate_recommendations") =>
          RecommendationsInOrder(result.returns, call.match_result)
    /\ (Returned("match_single_resume") /\ result.status = 200) =>
          RecommendationsInOrder(result.body.recommendations, result.body)
    /\ (Returned("match_batch_resumes") /\ result.status = 200) =>
          \A i \in 1..Len(result.matches) :
              RecommendationsInOrder(result.matches[i].recommendations, result.matches[i])
    /\ (Returned("match_resume_to_job") /\ result.status = 200) =>
          RecommendationsInOrder(result.body.recommendations, result.body)

(***************************************************************************)
(* C13: extract_complete_profile is deterministic: two calls on the same   *)
(* text and sections yield the same skill profile, education profile,      *)
(* experience level and certifications, whatever the iteration order of    *)
(* the skill collection built by get_all_skills.                           *)
(***************************************************************************)
C13_ProfileIndependentOfSkillOrder ==
    Returned("extract_complete_profile") =>
        \A order \in SkillOrders :
            extract_complete_profile(call.text, call.sections, order) = result

(***************************************************************************)
(* C14: for every text and either value of use_fuzzy, every skill in       *)
(* 'skills' of extract_skills is in exactly one 'categories' bucket and    *)
(* has skill_count >= 1, and no bucket or skill_count key names a skill    *)
(* that is not in 'skills'.                                                *)
(***************************************************************************)
C14_SkillProfileInvariant ==
    Returned("extract_skills") =>
        LET skills == Range(result.skills)
            buckets == DOMAIN result.categories
        IN  /\ \A skill \in skills :
                  /\ Cardinality({b \in buckets : skill \in result.categories[b]}) = 1
                  /\ skill \in DOMAIN result.skill_count
                  /\ result.skill_count[skill] >= 1
            /\ \A b \in buckets : result.categories[b] \subseteq skills
            /\ DOMAIN result.skill_count \subseteq skills
            /\ Len(result.skills) = Cardinality(skills)

\* DynamoDB, listed under databases and aws_services, lands in databases
\* only; SQS, found by the fuzzy pass alone, is counted once
C14_Witness ==
    /\ Returned("extract_skills")
    /\ call.text = <<"DynamoDB", "SQLs">>
    /\ call.use_fuzzy
    /\ result.skills = <<"DynamoDB", "SQS">>
    /\ result.categories = [c \in {"databases", "aws_services"} |->
                              IF c = "databases" THEN {"DynamoDB"} ELSE {"SQS"}]
    /\ result.skill_count["SQS"] = 1

(***************************************************************************)
(* C15: the skills returned by extract_skills are synonym-normalised: no   *)
(* returned skill is an alias of the synonym table, and a text mentioning  *)
(* a skill through an alias and through its canonical name yields the      *)
(* canonical skill alone.                                                  *)
(***************************************************************************)
C15_SkillsSynonymNormalised ==
    Returned("extract_skills") =>
        \A skill \in Range(result.skills) : normalize_skill(skill) = skill

(***************************************************************************)
(* C16: found_degrees of extract_education holds at most one entry per     *)
(* education level, with the first keyword of that level's list that       *)
(* occurs in the text; highest_level is the highest-ranked level among     *)
(* found_degrees and None exactly when found_degrees is empty; has_degree  *)
(* is true exactly when found_degrees is non-empty.                        *)
(***************************************************************************)
RankOf(level) == CHOOSE r \in 1..Len(level_hierarchy) : level_hierarchy[r] = level

KeywordsOf(level) ==
    (CHOOSE entry \in Range(EDUCATION_LEVELS) : entry.level = level).keywords

C16_EducationProfile ==
    Returned("extract_education") =>
        LET found == result.found_degrees
            text == call.text
        IN  /\ \A i, j \in 1..Len(found) : found[i].level = found[j].level => i = j
            /\ \A i \in 1..Len(found) :
                  \E k \in 1..Len(KeywordsOf(found[i].level)) :
                      /\ KeywordsOf(found[i].level)[k] = found[i].keyword
                      /\ Occurs(found[i].keyword, text)
                      /\ \A before \in 1..(k - 1) :
                            ~Occurs(KeywordsOf(found[i].level)[before], text)
            /\ \A entry \in Range(EDUCATION_LEVELS) :
                  AnyOccurs(entry.keywords, text) =>
                      \E i \in 1..Len(found) : found[i].level = entry.level
            /\ (result.highest_level = "None") <=> (found = <<>>)
            /\ found # <<>> =>
                  /\ \E i \in 1..Len(found) : found[i].level = result.highest_level
                  /\ \A i \in 1..Len(found) :
                        RankOf(found[i].level) <= RankOf(result.highest_level)
            /\ result.has_degree <=> (found # <<>>)

\* "MSc" holds MSc before MS in the list of masters; "Masters" holds Master
\* and, as a substring, AS of associate
C16_Witness ==
    /\ Returned("extract_education")
    /\ call.text = <<"Masters", "MSc">>
    /\ result.found_degrees = <<[level |-> "masters", keyword |-> "Master"],
                                [level |-> "associate", keyword |-> "AS"]>>
    /\ result.highest_level = "masters"
    /\ result.has_degree

(***************************************************************************)
(* C18: each of email, phone, linkedin and github of extract_contact_info  *)
(* is the first complete match of its pattern in the text, or None when    *)
(* the pattern matches nowhere.                                            *)
(***************************************************************************)
RECURSIVE CompleteMatches(_, _)
CompleteMatches(pattern, text) ==
    IF text = <<>> THEN <<>>
    ELSE LET n == Len(text)
             found == Matches(pattern, text[n])
         IN  CompleteMatches(pattern, SubSeq(text, 1, n - 1)) \o
             [i \in 1..Len(found) |-> found[i].complete]

FirstCompleteMatch(pattern, text) ==
    IF CompleteMatches(pattern, text) = <<>> THEN "None"
    ELSE CompleteMatches(pattern, text)[1]

C18_ContactIsFirstCompleteMatch ==
    Returned("extract_contact_info") =>
        /\ result.email = FirstCompleteMatch("email_pattern", call.text)
        /\ result.phone = FirstCompleteMatch("phone_pattern", call.text)
        /\ result.linkedin = FirstCompleteMatch("linkedin_pattern", call.text)
        /\ result.github = FirstCompleteMatch("github_pattern", call.text)

(***************************************************************************)
(* C19: extract_years_of_experience returns max(M, S): M the largest       *)
(* number stated in an explicit years-of-experience phrase (0 if none), S  *)
(* the sum over all year ranges in the text of end - start for each range  *)
(* whose duration d satisfies 0 < d < 50, overlapping ranges summed.       *)
(***************************************************************************)
LargestStated(text) ==
    Greatest({0} \cup UNION {PhraseYears(text[i]) : i \in 1..Len(text)})

\* end - start of the range a line states, an open range ending this year
RangeLength(line) ==
    LET d == CASE line.kind = "range" -> line.end - line.start
               [] line.kind = "open" -> current_year - line.start
               [] OTHER -> 0
    IN  IF 0 < d /\ d < 50 THEN d ELSE 0

RECURSIVE SumOfRanges(_)
SumOfRanges(text) ==
    IF text = <<>> THEN 0
    ELSE SumOfRanges(SubSeq(text, 1, Len(text) - 1)) + RangeLength(text[Len(text)])

C19_YearsIsMaxOfStatedAndSummed ==
    Returned("extract_years_of_experience") =>
        /\ result.returns >= LargestStated(call.text)
        /\ result.returns >= SumOfRanges(call.text)
        /\ result.returns \in {LargestStated(call.text), SumOfRanges(call.text)}

(***************************************************************************)
(* C20: a range 'YYYY - present' contributes currentYear - YYYY when that  *)
(* lies in (0, 50): a text whose only experience cue is such a range       *)
(* yields that duration rather than 0.                                     *)
(***************************************************************************)
C20_OpenEndedRangeCounts ==
    Returned("extract_years_of_experience") =>
        \A i \in 1..Len(call.text) :
            (/\ call.text[i].kind = "open"
             /\ \A j \in 1..Len(call.text) : j # i => call.text[j].kind = "other"
             /\ 0 < current_year - call.text[i].start
             /\ current_year - call.text[i].start < 50)
            => result.returns = current_year - call.text[i].start

(***************************************************************************)
(* C21: for every detected skill, skill_count of extract_skills equals the *)
(* number of surface occurrences of the skill in the text, whether found   *)
(* by the exact pass or by the fuzzy pass.                                 *)
(***************************************************************************)
\* the words of the text that mention the skill: literally, or as a
\* candidate the fuzzy pass resolves to it
SurfaceOccurrences(text, skill, use_fuzzy) ==
    {i \in 1..Len(text) :
        \/ Lower(text[i]) = Lower(skill)
        \/ /\ use_fuzzy
           /\ text[i] \in Candidates(text)
           /\ fuzz_ratio(text[i], skill) >= fuzzy_threshold
           /\ BestMatch(text[i], all_skills).best_match = skill}

C21_CountIsSurfaceOccurrences ==
    Returned("extract_skills") =>
        \A skill \in Range(result.skills) :
            result.skill_count[skill] =
                Cardinality(SurfaceOccurrences(call.text, skill, call.use_fuzzy))

(***************************************************************************)
(* C22: a skill enters the result of extract_skills through the fuzzy pass *)
(* only if it is the best-scoring taxonomy skill for some candidate, with  *)
(* a score >= 85; every returned skill has an exact occurrence in the text *)
(* or such a candidate, and with use_fuzzy=False every returned skill has  *)
(* an exact occurrence.                                                    *)
(***************************************************************************)
HasExactOccurrence(text, skill) == \E i \in 1..Len(text) : Lower(text[i]) = Lower(skill)

HasFuzzyCandidate(text, skill) ==
    \E candidate \in Candidates(text) :
        /\ fuzz_ratio(candidate, skill) >= 85
        /\ \A other \in TaxonomySkills :
              fuzz_ratio(candidate, other) <= fuzz_ratio(candidate, skill)

C22_FuzzyAcceptanceRule ==
    Returned("extract_skills") =>
        \A skill \in Range(result.skills) :
            /\ HasExactOccurrence(call.text, skill) \/ HasFuzzyCandidate(call.text, skill)
            /\ ~call.use_fuzzy => HasExactOccurrence(call.text, skill)
            /\ skill \in TaxonomySkills

\* "sklearns" scores 93 against sklearn and enters by the fuzzy pass; with
\* "DynamoDB" found exactly beside it
C22_Witness ==
    /\ Returned("extract_skills")
    /\ call.use_fuzzy
    /\ call.text = <<"sklearns", "DynamoDB">>
    /\ result.skills = <<"DynamoDB", "sklearn">>
    /\ ~HasExactOccurrence(call.text, "sklearn")
    /\ HasFuzzyCandidate(call.text, "sklearn")

(***************************************************************************)
(* C23: extract_name examines at most the first 5 non-empty lines of the   *)
(* text, skips every line with an email, phone or URL match, and returns   *)
(* the first remaining line that has 2 to 4 words each starting with an    *)
(* uppercase letter; it returns None when no examined line qualifies.      *)
(***************************************************************************)
NonEmptyLines(text) ==
    LET non_empty(line) == line # ""
    IN  SelectSeq(text, non_empty)

FirstFiveNonEmpty(text) ==
    SubSeq(NonEmptyLines(text), 1,
           IF Len(NonEmptyLines(text)) < 5 THEN Len(NonEmptyLines(text)) ELSE 5)

IsNameLine(line) ==
    /\ \A pattern \in {"email_pattern", "phone_pattern", "url_pattern"} :
          Matches(pattern, line) = <<>>
    /\ Len(LineWords(line)) \in 2..4
    /\ \A i \in 1..Len(LineWords(line)) : UpperInitial(LineWords(line)[i])

C23_NameFromFirstFiveNonEmptyLines ==
    Returned("extract_name") =>
        LET examined == FirstFiveNonEmpty(call.text)
        IN  IF \E i \in 1..Len(examined) : IsNameLine(examined[i])
            THEN \E i \in 1..Len(examined) :
                    /\ IsNameLine(examined[i])
                    /\ \A j \in 1..(i - 1) : ~IsNameLine(examined[j])
                    /\ result.returns = examined[i]
            ELSE result.returns = "None"

(***************************************************************************)
(* C24: extract_sections accepts a header keyword occurrence only when it  *)
(* lies at or within about 5 characters of the start of its line; a        *)
(* keyword further into a line, on any line of the text including the      *)
(* first, never starts a section.                                          *)
(***************************************************************************)
KeywordsOfSection(section_name) ==
    LET entry == CHOOSE e \in Range(section_keywords) : e.section_name = section_name
    IN  Range(entry.keywords)

Occurrences(s, section_name) ==
    {i \in 1..Len(s) :
        \E keyword \in KeywordsOfSection(section_name) : KeywordAt(s, keyword, i)}

\* the number of characters between the start of the line and the element
LineOffset(s, i) ==
    IF rfind_newline(s, i) = 0 THEN RawOffset(s, i)
    ELSE RawOffset(s, i) - RawOffset(s, rfind_newline(s, i) + 1)

C24_HeaderOnlyNearLineStart ==
    Returned("extract_sections") =>
        \A k \in 1..Len(result.returns) :
            \E i \in Occurrences(Spaced(call.text), result.returns[k].section_name) :
                LineOffset(Spaced(call.text), i) <= 5

(***************************************************************************)
(* C25: extract_sections produces at most one section per section name,   *)
(* ordered by header offset; the text of each section is the slice of the  *)
(* document from its header offset up to the next detected header's offset *)
(* (or the end of the document for the last one), with the header keyword  *)
(* stripped from the front, so the slices of different sections never      *)
(* overlap.                                                                *)
(***************************************************************************)
SliceWithoutHeader(s, from, to, section_name, parts) ==
    \E keyword \in KeywordsOfSection(section_name) :
        /\ KeywordAt(s, keyword, from)
        /\ parts = RemoveHeader(
                      StripParts(RawSlice(s, RawOffset(s, from), RawOffset(s, to))),
                      keyword)

C25_SectionsAreDisjointSlices ==
    Returned("extract_sections") =>
        LET s == Spaced(call.text)
            sections == result.returns
            n == Len(sections)
        IN  /\ \A i, j \in 1..n :
                  sections[i].section_name = sections[j].section_name => i = j
            /\ \E header \in [1..n -> 1..Len(s)] :
                  /\ \A i \in 1..(n - 1) : header[i] < header[i + 1]
                  /\ \A i \in 1..n :
                        SliceWithoutHeader(
                            s, header[i],
                            IF i < n THEN header[i + 1] ELSE Len(s) + 1,
                            sections[i].section_name, sections[i].text)

(***************************************************************************)
(* C26: when several keywords of the same section name (e.g. both PROFILE  *)
(* and SUMMARY for 'summary') occur as valid headers in a text, the        *)
(* section starts at the keyword occurrence that comes first in the        *)
(* document.                                                               *)
(***************************************************************************)
\* the keyword of the section whose header comes first in the text
FirstHeaderInText(s, keywords) ==
    LET headers == {k \in 1..Len(keywords) :
                        /\ find(s, keywords[k]) # 0
                        /\ IsHeader(s, find(s, keywords[k]))}
    IN  IF headers = {} THEN <<>>
        ELSE <<keywords[CHOOSE k \in headers : \A other \in headers :
                            find(s, keywords[k]) <= find(s, keywords[other])]>>

HeadersInTextOrder(s) ==
    [n \in 1..Len(section_keywords) |->
        FirstHeaderInText(s, section_keywords[n].keywords)]

C26_SectionStartsAtFirstHeaderInText ==
    Returned("extract_sections") =>
        result.returns =
            SectionsFrom(Spaced(call.text),
                         SortByPos(PositionsBy(HeadersInTextOrder(Spaced(call.text)),
                                               Spaced(call.text))))

(***************************************************************************)
(* C27: in every result of calculate_overall_fit_score the experience      *)
(* requirement passed to calculate_experience_match is 0: experience_match *)
(* is always {score 100, meets_requirement true, difference 0},            *)
(* independent of the candidate's years_experience and of any              *)
(* required_years given with the job, so generate_recommendations never    *)
(* produces the 'gain more experience' recommendation for it.              *)
(***************************************************************************)
C27_ExperienceRequirementIsZero ==
    Returned("calculate_overall_fit_score") =>
        /\ result.experience_match =
              [score |-> Hundredths(100), meets_requirement |-> TRUE, difference |-> 0]
        /\ \A i \in 1..Len(generate_recommendations(result)) :
              generate_recommendations(result)[i].text
                  # "Gain more relevant work experience"

C27_Witness ==
    /\ Returned("calculate_overall_fit_score")
    /\ call.resume_data.years_experience < call.job_data.required_years
    /\ result.experience_match.meets_requirement

(***************************************************************************)
(* C28: for every match result produced by calculate_overall_fit_score and *)
(* passed to generate_recommendations, the tier of the final overall-fit   *)
(* remark agrees with the result's fit_level: Excellent with 'Excellent    *)
(* fit', Good with 'Good fit', Fair with 'Moderate fit', Poor with         *)
(* 'Consider other opportunities'.                                         *)
(***************************************************************************)
RemarkOfLevel(level) ==
    CASE level = "Excellent" -> "Excellent fit - Highly recommended for interview"
      [] level = "Good" -> "Good fit - Recommend for initial screening"
      [] level = "Fair" -> "Moderate fit - May be suitable for entry-level roles"
      [] level = "Poor" -> "Consider other opportunities better aligned with skills"

C28_RemarkAgreesWithFitLevel ==
    Returned("calculate_overall_fit_score") =>
        LET recommendations == generate_recommendations(result)
        IN  recommendations[Len(recommendations)].text = RemarkOfLevel(result.fit_level)

(***************************************************************************)
(* C29: batch matching is complete: for every job description, also one   *)
(* whose effective required-skill list is empty, each requested resume     *)
(* file that exists and whose parsing and profile extraction succeed       *)
(* yields exactly one entry in the response's matches, and                 *)
(* total_candidates is the number of such files.                           *)
(***************************************************************************)
\* the places of the request at which the file is a resume that parses
ParsedRequests(filename) ==
    {i \in 1..Len(call.resume_files) :
        /\ call.resume_files[i] = filename
        /\ call.uploaded[filename].kind = "resume"}

C29_BatchMatchesEveryParsedResume ==
    (Returned("match_batch_resumes") /\ result.status = 200) =>
        /\ \A filename \in Filenames :
              Cardinality({i \in 1..Len(result.matches) :
                              result.matches[i].filename = filename})
                  = Cardinality(ParsedRequests(filename))
        /\ result.total_candidates =
              Cardinality(UNION {ParsedRequests(filename) : filename \in Filenames})

(***************************************************************************)
(* C30: database-backed upload is all-or-nothing: starting from an empty   *)
(* store, after any sequence of /resume/upload requests a file exists in   *)
(* the upload directory under a filename if and only if a resume record    *)
(* with that filename exists, filenames of records are unique, and a       *)
(* request that ends in an error (invalid extension, duplicate filename,   *)
(* processing or database failure) leaves the set of resume records        *)
(* unchanged.                                                              *)
(***************************************************************************)
C30_UploadAllOrNothing ==
    /\ upload_dir = Range(resumes)
    /\ \A i, j \in 1..Len(resumes) : resumes[i] = resumes[j] => i = j
    /\ (Returned("upload_resume") /\ result.status # 200) => resumes = call.resumes

====
